---- MODULE Spec2Model ----
(***************************************************************************)
(* Verification model of the voice-agent streaming pipeline:               *)
(*   conversation_manager.py  ConversationManager (state machine, barge-in)*)
(*   asr.py                   CartesiaASR.transcribe_stream                *)
(*   llm.py                   AnthropicLLM.generate_stream                 *)
(*   tts.py                   CartesiaTTS.synthesize_stream                *)
(*   audio_player.py          SoundDeviceAudioPlayer                       *)
(*   main.py                  test_asr (the orchestrator)                  *)
(* Every asyncio task is a process with a program counter; one action is   *)
(* the code a task runs between two suspension points.                     *)
(***************************************************************************)
EXTENDS Integers, Sequences, FiniteSets, TLC

(* ------------------------------ bounds -------------------------------- *)
\* barge-ins explored (cap on current_session_id)
MaxSessions == 2
\* results the recognition service delivers in one run
MaxResults == 3
\* chunks the finite audio source yields
MaxChunks == 2
\* items an (unbounded) asyncio.Queue holds in the model
QueueCap == 1
\* chunks one response / one synthesis unit streams
MaxStream == 1
\* tasks that call the coordinator's API concurrently (SpecAPI)
NumCallers == 2
\* API calls explored per run of SpecAPI
MaxCalls == 6
\* min_buffer_samples the player is constructed with (samples)
min_buffer_samples == 3
\* longest frame pushed to the playback buffer (samples)
MaxFrameLen == 2
\* largest block the audio output asks the callback for (samples)
MaxFrames == 3
\* cap on total_samples_buffered
MaxBuffered == 4
\* cap on underrun_count
MaxUnderruns == 2
\* items a channel holds at most when its puts are explored alone
MaxQueued == 21
\* fragments fed to the responder or to the synthesizer before the end of input
MaxFragments == 2
\* samples pushed to the playback buffer in one logged run
MaxPushed == 6
\* calls of _generate_anthropic_stream (one more than the turns the
\* history keeps)
MaxTurns == 11

(* -------------------------- program constants ------------------------- *)
\* maxsize of the queues test_asr creates with asyncio.Queue(): 0, no limit
maxsize == 0
\* maxsize of the queues of BufferManager
audio_maxsize == 10
text_maxsize == 10
llm_response_maxsize == 20
playback_maxsize == 20
\* the length the message history is cut to, llm.py:130-131
history_limit == 20

(* --------------------------- program values --------------------------- *)
\* PipelineState, conversation_manager.py:5-9
LISTENING == "listening"
PROCESSING == "processing"
RESPONDING == "responding"
INTERRUPTING == "interrupting"
PipelineState == {LISTENING, PROCESSING, RESPONDING, INTERRUPTING}

\* keys of ConversationManager.cleanup_events, conversation_manager.py:19-23
Components == {"llm", "tts", "audio_player"}

\* tasks holding the coordinator handle
Callers == 1..NumCallers

\* a text is a sequence of characters
Text(c1, c2, c3) == <<c1, c2, c3>>

\* the terminal marker of the stage channels, the text "END"
END == Text("E", "N", "D")

\* the sentence terminals of _should_send: . ! ? and the full-width
\* U+3002 (ideographic full stop), U+FF01 (!), U+FF1F (?)
Terminals == {".", "!", "?", "U+3002", "U+FF01", "U+FF1F"}

\* the response chunks the language model streams in the pipeline
ResponseChunks == {<<"w">>, <<"w", ".">>}

\* an item on a text channel that is not a str (None, a number): it is not
\* equal to "END" and has no strip()
NonText == <<"None">>

\* an item on the playback channel that is neither bytes nor an array
\* (None, a number): it has no len()
NonAudio == "None"

\* nothing written to the audio output yet
NoFrame == [sid |-> -1]

VARIABLES
    \* ConversationManager
    state,               \* self.state
    interrupt_event,     \* self.interrupt_event (is_set)
    cleanup_events,      \* self.cleanup_events[name] (is_set)
    current_session_id,  \* self.current_session_id
    \* tasks calling the coordinator's API directly (SpecAPI)
    ti_pc,               \* position of each caller inside trigger_interrupt
    ti_got,              \* the Event.wait() tasks of a caller that completed
    calls,               \* API calls made so far
    \* main.py: audio_producer and the finite source
    src_left,            \* chunks the source still yields
    producer_pc,         \* "run" | "done"
    audio_queue,
    \* sources.py: RealTimeMicrophoneSource
    recording,           \* self.recording
    capture_buffer,      \* the source's self.audio_buffer, a deque of chunks
    captured,            \* log: the chunks the callback appended, in order
    yielded,             \* log: the chunks stream_audio yielded, in order
    capture_lock,        \* holder of the source's buffer_lock
    mic_pc,              \* stream_audio: "init" | "loop" | "yielded" | "sleep"
                         \* | "done"
    mic_cb,              \* the input callback thread: "idle" | "locked"
    \* asr.py: transcribe_stream, sender, receiver
    sender_pc,           \* "run" | "done"
    results_left,        \* results the service still delivers
    recv_pc,             \* "recv" | "waiting" | "returned" | "yield" | "closed"
    cur_result,          \* the transcript result being handled
    asr_sid,             \* CartesiaASR.current_session_id
    asr_pc,              \* transcribe_stream: "run" | "await_sender" | "done"
    text_queue,
    \* llm.py: generate_stream
    llm_pc,              \* "first" | "accum" | "gen" | "done" | "raised"
    llm_left,            \* chunks the current response may still stream
    llm_buffer,          \* generate_stream's local buffer, the utterance
    heard,               \* log: the fragments got from the text channel
    utterances,          \* log: the buffers with which Step 2 was left
    inputs,              \* log: the arguments of _generate_anthropic_stream
    \* llm.py: _generate_anthropic_stream
    message_history,     \* self.message_history, the roles of its messages
    messages,            \* the list passed to client.messages.stream last
    assistant_response,  \* the text streamed so far for the request
    gen_pc,              \* "idle" | "stream"
    turns,               \* calls of _generate_anthropic_stream so far
    response_queue,
    \* tts.py: synthesize_stream
    tts_pc,              \* "get" | "synth" | "done"
    buffer,              \* the text accumulated since the last unit
    tts_buf,             \* session ids of the fragments accumulated in buffer
    received,            \* log: the fragments got from the channel so far
    units,               \* log: the texts passed to _synthesize_sentence
    tts_left,            \* audio chunks the current unit may still stream
    tts_final,           \* synthesising the remainder after END
    tts_chunk_queue,
    \* audio_player.py: play_audio and the playback buffer
    player_pc,           \* "run" | "loop" | "drain" | "done"
    audio_buffer,        \* deque of frames, a frame is a sequence of samples
    total_samples_buffered,
    underrun_count,
    started_playback,
    is_playing,          \* the output stream is active
    outdata,             \* the block the audio callback filled last
    served,              \* the frame the callback wrote to the output last
    buffer_lock,         \* holder of the player's buffer_lock
    push_pc,             \* the task inside _add_audio_chunk / flush_and_stop
    push_arg,            \* the audio_data of the _add_audio_chunk under way
    pop_pc,              \* the output callback thread: "idle" | "locked"
    pushed,              \* log: the samples pushed so far
    popped               \* log: the real samples written to the output so far

cmVars == <<state, interrupt_event, cleanup_events, current_session_id>>
apiVars == <<ti_pc, ti_got, calls>>
micLog == <<captured, yielded>>
micVars == <<recording, capture_buffer, capture_lock, mic_pc, mic_cb, micLog>>
srcVars == <<src_left, producer_pc, audio_queue, micVars>>
asrVars == <<sender_pc, results_left, recv_pc, cur_result, asr_sid, asr_pc>>
histVars == <<message_history, messages, assistant_response, gen_pc, turns>>
llmLog == <<heard, utterances, inputs, histVars>>
llmVars == <<llm_pc, llm_left, llm_buffer, llmLog>>
ttsLog == <<received, units>>
ttsVars == <<tts_pc, buffer, tts_buf, tts_left, tts_final, ttsLog>>
bufVars == <<audio_buffer, total_samples_buffered, underrun_count,
             started_playback, is_playing, outdata>>
lockVars == <<buffer_lock, push_pc, push_arg, pop_pc>>
bufLog == <<pushed, popped>>
playVars == <<player_pc, bufVars, served, lockVars, bufLog>>
queueVars == <<text_queue, response_queue, tts_chunk_queue>>
pipeVars == <<srcVars, asrVars, llmVars, ttsVars, playVars, queueVars>>
vars == <<cmVars, apiVars, pipeVars>>

\* ConversationManager.__init__ and the components' constructors
Init ==
    /\ state = LISTENING
    /\ interrupt_event = FALSE
    /\ cleanup_events = [c \in Components |-> FALSE]
    /\ current_session_id = 0
    /\ ti_pc = [c \in Callers |-> "idle"]
    /\ ti_got = [c \in Callers |-> {}]
    /\ calls = 0
    /\ src_left = MaxChunks
    /\ producer_pc = "run"
    /\ audio_queue = <<>>
    /\ recording = FALSE
    /\ capture_buffer = <<>>
    /\ captured = <<>>
    /\ yielded = <<>>
    /\ capture_lock = "free"
    /\ mic_pc = "init"
    /\ mic_cb = "idle"
    /\ sender_pc = "run"
    /\ results_left = MaxResults
    /\ recv_pc = "recv"
    /\ cur_result = "none"
    /\ asr_sid = 0
    /\ asr_pc = "run"
    /\ text_queue = <<>>
    /\ llm_pc = "first"
    /\ llm_left = 0
    /\ llm_buffer = <<>>
    /\ heard = <<>>
    /\ utterances = <<>>
    /\ inputs = <<>>
    /\ message_history = <<>>
    /\ messages = <<>>
    /\ assistant_response = <<>>
    /\ gen_pc = "idle"
    /\ turns = 0
    /\ response_queue = <<>>
    /\ tts_pc = "get"
    /\ buffer = <<>>
    /\ tts_buf = {}
    /\ received = <<>>
    /\ units = <<>>
    /\ tts_left = 0
    /\ tts_final = FALSE
    /\ tts_chunk_queue = <<>>
    /\ player_pc = "run"
    /\ audio_buffer = <<>>
    /\ total_samples_buffered = 0
    /\ underrun_count = 0
    /\ started_playback = FALSE
    /\ is_playing = FALSE
    /\ outdata = <<>>
    /\ served = NoFrame
    /\ buffer_lock = "free"
    /\ push_pc = "idle"
    /\ push_arg = <<>>
    /\ pop_pc = "idle"
    /\ pushed = <<>>
    /\ popped = <<>>

(* ----------------------- ConversationManager -------------------------- *)
\* set_state: an unguarded assignment
set_state(new_state) ==
    state' = new_state

\* trigger_interrupt that forgets set_state(INTERRUPTING)
trigger_interrupt_begin_NoState ==
    /\ state = RESPONDING
    /\ current_session_id' = current_session_id + 1
    /\ interrupt_event' = TRUE
    /\ UNCHANGED <<state, cleanup_events>>

\* trigger_interrupt that forgets to increment the session id
trigger_interrupt_begin_NoIncrement ==
    /\ state = RESPONDING
    /\ set_state(INTERRUPTING)
    /\ interrupt_event' = TRUE
    /\ UNCHANGED <<current_session_id, cleanup_events>>

\* trigger_interrupt, from its guard to the await of the acknowledgements:
\* set_state(INTERRUPTING), session id + 1, interrupt_event.set()
trigger_interrupt_begin ==
    /\ state = RESPONDING
    /\ set_state(INTERRUPTING)
    /\ current_session_id' = current_session_id + 1
    /\ interrupt_event' = TRUE
    /\ UNCHANGED cleanup_events

\* trigger_interrupt that resets the events and forgets set_state(LISTENING)
trigger_interrupt_end_NoListening ==
    /\ interrupt_event' = FALSE
    /\ cleanup_events' = [c \in Components |-> FALSE]
    /\ UNCHANGED <<state, current_session_id>>

\* trigger_interrupt that clears the interrupt event only
trigger_interrupt_end_KeepAcks ==
    /\ interrupt_event' = FALSE
    /\ set_state(LISTENING)
    /\ UNCHANGED <<cleanup_events, current_session_id>>

\* trigger_interrupt after the await (either branch of the try): clear the
\* interrupt event and every cleanup event, then set_state(LISTENING)
trigger_interrupt_end ==
    /\ interrupt_event' = FALSE
    /\ cleanup_events' = [c \in Components |-> FALSE]
    /\ set_state(LISTENING)
    /\ UNCHANGED current_session_id

\* signal_cleanup_complete: sets the event of a known component only
signal_cleanup_complete(component) ==
    /\ cleanup_events' =
         IF component \in Components
         THEN [cleanup_events EXCEPT ![component] = TRUE]
         ELSE cleanup_events
    /\ UNCHANGED <<state, interrupt_event, current_session_id>>

(* ------------- the coordinator's API under arbitrary callers ---------- *)
\* a task that is inside trigger_interrupt, suspended in the await
InInterrupt(c) ==
    ti_pc[c] \in {"starting", "waiting"}

\* a task calls set_state with any value of the enumeration
ApiSetState(new_state) ==
    /\ calls < MaxCalls
    /\ calls' = calls + 1
    /\ set_state(new_state)
    /\ UNCHANGED <<interrupt_event, cleanup_events, current_session_id>>
    /\ UNCHANGED <<ti_pc, ti_got, pipeVars>>

\* a task calls signal_cleanup_complete with any name; Event.set() resolves
\* the wait() of every task already waiting on that event
ApiSignalCleanupComplete(component) ==
    /\ calls < MaxCalls
    /\ calls' = calls + 1
    /\ signal_cleanup_complete(component)
    /\ ti_got' = [c \in Callers |->
                    IF ti_pc[c] = "waiting" /\ component \in Components
                    THEN ti_got[c] \cup {component} ELSE ti_got[c]]
    /\ UNCHANGED <<ti_pc, pipeVars>>

\* trigger_interrupt without its "if self.state != RESPONDING: return"
ApiTriggerInterrupt_NoGuard(c) ==
    /\ ~InInterrupt(c)
    /\ calls < MaxCalls
    /\ calls' = calls + 1
    /\ current_session_id < MaxSessions
    /\ set_state(INTERRUPTING)
    /\ current_session_id' = current_session_id + 1
    /\ interrupt_event' = TRUE
    /\ ti_pc' = [ti_pc EXCEPT ![c] = "starting"]
    /\ ti_got' = [ti_got EXCEPT ![c] = {}]
    /\ UNCHANGED <<cleanup_events, pipeVars>>

\* a task calls trigger_interrupt: it returns at once unless the state is
\* RESPONDING; otherwise it runs to the await (the gathered wait() tasks are
\* created and first run on the next iteration of the event loop)
ApiTriggerInterrupt(c) ==
    /\ ~InInterrupt(c)
    /\ calls < MaxCalls
    /\ calls' = calls + 1
    /\ IF state = RESPONDING
       THEN /\ current_session_id < MaxSessions
            /\ trigger_interrupt_begin
            /\ ti_pc' = [ti_pc EXCEPT ![c] = "starting"]
       ELSE /\ ti_pc' = [ti_pc EXCEPT ![c] = "returned_early"]
            /\ UNCHANGED cmVars
    /\ ti_got' = [ti_got EXCEPT ![c] = {}]
    /\ UNCHANGED pipeVars

\* the three wait() tasks of a caller start: a wait() on an event that is
\* set completes at once, the others queue a waiter
ApiWaitStart(c) ==
    /\ ti_pc[c] = "starting"
    /\ ti_pc' = [ti_pc EXCEPT ![c] = "waiting"]
    /\ ti_got' = [ti_got EXCEPT ![c] = {x \in Components : cleanup_events[x]}]
    /\ UNCHANGED <<cmVars, calls, pipeVars>>

\* the gather completes within the timeout
ApiWaitAcked(c) ==
    /\ ti_pc[c] = "waiting"
    /\ ti_got[c] = Components
    /\ trigger_interrupt_end
    /\ ti_pc' = [ti_pc EXCEPT ![c] = "done_acked"]
    /\ UNCHANGED <<ti_got, calls, pipeVars>>

\* a wait for the acknowledgements without asyncio.wait_for: no timeout
ApiWaitTimeout_Never(c) ==
    /\ FALSE
    /\ UNCHANGED vars

\* asyncio.TimeoutError after 2.0 s: the warning, then the same reset
ApiWaitTimeout(c) ==
    /\ ti_pc[c] = "waiting"
    /\ ti_got[c] # Components
    /\ trigger_interrupt_end
    /\ ti_pc' = [ti_pc EXCEPT ![c] = "done_timeout"]
    /\ UNCHANGED <<ti_got, calls, pipeVars>>

NextAPI ==
    \/ \E s \in PipelineState : ApiSetState(s)
    \/ \E x \in Components \cup {"asr"} : ApiSignalCleanupComplete(x)
    \/ \E c \in Callers : ApiTriggerInterrupt(c)
    \/ \E c \in Callers : ApiWaitStart(c)
    \/ \E c \in Callers : ApiWaitAcked(c)
    \/ \E c \in Callers : ApiWaitTimeout(c)

SpecAPI == Init /\ [][NextAPI]_vars

\* the event loop runs every ready task and fires every due timer
FairAPI ==
    /\ SpecAPI
    /\ \A c \in Callers : WF_vars(ApiWaitStart(c))
    /\ \A c \in Callers : WF_vars(ApiWaitAcked(c))
    /\ \A c \in Callers : WF_vars(ApiWaitTimeout(c))

(* --------------------- stage channels (asyncio.Queue) ------------------ *)
\* put completes when the queue has room
CanPut(q) == Len(q) < QueueCap

\* a payload stamped with the session id current when it was produced
Item(text, sid) == [text |-> text, sid |-> sid]

Min(S) == CHOOSE x \in S : \A y \in S : x <= y

\* asyncio is cooperative: another task runs only while the receiver is
\* suspended (in ws.receive(), in the await of trigger_interrupt, or in a put
\* on a full queue); between those points the receiver runs alone
LoopTurn ==
    \/ recv_pc \in {"recv", "waiting", "closed"}
    \/ recv_pc = "yield" /\ ~CanPut(text_queue)

(* ------------------- main.py: audio_producer, source ------------------- *)
\* audio_producer: async for chunk in stream_audio(): await audio_queue.put
AudioProducerPut ==
    /\ LoopTurn
    /\ producer_pc = "run"
    /\ src_left > 0
    /\ CanPut(audio_queue)
    /\ audio_queue' = Append(audio_queue, "chunk")
    /\ src_left' = src_left - 1
    /\ UNCHANGED <<producer_pc, micVars, cmVars, apiVars, asrVars, llmVars,
                   ttsVars, playVars, queueVars>>

\* the finite source ends; audio_producer returns without putting a marker
AudioProducerEnd ==
    /\ LoopTurn
    /\ producer_pc = "run"
    /\ src_left = 0
    /\ producer_pc' = "done"
    /\ UNCHANGED <<src_left, audio_queue, micVars, cmVars, apiVars, asrVars,
                   llmVars, ttsVars, playVars, queueVars>>

(* --------------------- asr.py: transcribe_stream ----------------------- *)
\* sender: chunk = await audio_queue.get(); await ws.send(chunk). A send on
\* the socket the receiver has closed may raise (the sender then returns)
AsrSend ==
    /\ LoopTurn
    /\ sender_pc = "run"
    /\ audio_queue # <<>>
    /\ audio_queue' = Tail(audio_queue)
    /\ IF recv_pc = "closed"
       THEN sender_pc' \in {"run", "done"}
       ELSE sender_pc' = "run"
    /\ UNCHANGED <<src_left, producer_pc, micVars, results_left, recv_pc,
                   cur_result, asr_sid, asr_pc, cmVars, apiVars, llmVars,
                   ttsVars, playVars, queueVars>>

\* the receiver going on with a result without set_state(PROCESSING)
AsrHandle_NoProcessing(kind) ==
    /\ asr_sid' = current_session_id
    /\ recv_pc' = IF kind = "final" THEN "yield" ELSE "recv"
    /\ cur_result' = kind
    /\ UNCHANGED cmVars

\* receiver, after the barge-in check: capture the session id; for a final
\* transcript compare it, set_state(PROCESSING) when equal, and yield the
\* text whatever the comparison gave; an interim transcript is skipped
AsrHandle(kind) ==
    /\ asr_sid' = current_session_id
    /\ IF kind = "final"
       THEN /\ IF asr_sid' = current_session_id
               THEN set_state(PROCESSING)
               ELSE UNCHANGED state
            /\ recv_pc' = "yield"
       ELSE /\ UNCHANGED state
            /\ recv_pc' = "recv"
    /\ cur_result' = kind
    /\ UNCHANGED <<interrupt_event, cleanup_events, current_session_id>>

\* receiver: a transcript result arrives. Empty text is skipped; non-empty
\* text received while RESPONDING first awaits trigger_interrupt
AsrReceive(kind) ==
    /\ recv_pc = "recv"
    /\ results_left > 0
    /\ results_left' = results_left - 1
    /\ IF kind = "empty"
       THEN UNCHANGED <<recv_pc, cur_result, asr_sid, cmVars>>
       ELSE IF state = RESPONDING
            THEN /\ current_session_id < MaxSessions
                 /\ trigger_interrupt_begin
                 /\ recv_pc' = "waiting"
                 /\ cur_result' = kind
                 /\ UNCHANGED asr_sid
            ELSE AsrHandle(kind)
    /\ UNCHANGED <<sender_pc, asr_pc, apiVars, srcVars, llmVars, ttsVars,
                   playVars, queueVars>>

\* trigger_interrupt called by the receiver: the await ends (no component of
\* the pipeline acknowledges, so by the 2.0 s timeout), events are reset,
\* set_state(LISTENING), and trigger_interrupt returns
AsrInterruptEnd ==
    /\ recv_pc = "waiting"
    /\ trigger_interrupt_end
    /\ recv_pc' = "returned"
    /\ UNCHANGED <<sender_pc, results_left, cur_result, asr_sid, asr_pc,
                   apiVars, srcVars, llmVars, ttsVars, playVars, queueVars>>

\* the receiver back from trigger_interrupt and forwarding the text
\* without set_state(PROCESSING)
AsrResume_NoProcessing ==
    /\ recv_pc = "returned"
    /\ AsrHandle_NoProcessing(cur_result)
    /\ UNCHANGED <<sender_pc, results_left, asr_pc, apiVars, srcVars,
                   llmVars, ttsVars, playVars, queueVars>>

\* receiver: back from trigger_interrupt, it goes on with the same result
AsrResume ==
    /\ recv_pc = "returned"
    /\ AsrHandle(cur_result)
    /\ UNCHANGED <<sender_pc, results_left, asr_pc, apiVars, srcVars,
                   llmVars, ttsVars, playVars, queueVars>>

\* text_producer: await text_queue.put(text) for the text the generator
\* yielded, then the receiver is resumed
TextProducerPut ==
    /\ recv_pc = "yield"
    /\ CanPut(text_queue)
    /\ text_queue' = Append(text_queue, Item(<<"t">>, asr_sid))
    /\ recv_pc' = "recv"
    /\ UNCHANGED <<sender_pc, results_left, cur_result, asr_sid, asr_pc,
                   response_queue, tts_chunk_queue, cmVars, apiVars, srcVars,
                   llmVars, ttsVars, playVars>>

\* receiver: a 'done' result, or the result stream ends: ws.close(), and
\* transcribe_stream goes on to await sender_task
AsrDone ==
    /\ recv_pc = "recv"
    /\ recv_pc' = "closed"
    /\ asr_pc' = "await_sender"
    /\ UNCHANGED <<sender_pc, results_left, cur_result, asr_sid, cmVars,
                   apiVars, srcVars, llmVars, ttsVars, playVars, queueVars>>

\* transcribe_stream: await sender_task returns once the sender has ended;
\* text_producer then returns without putting a marker
AsrFinish ==
    /\ LoopTurn
    /\ asr_pc = "await_sender"
    /\ sender_pc = "done"
    /\ asr_pc' = "done"
    /\ UNCHANGED <<sender_pc, results_left, recv_pc, cur_result, asr_sid,
                   cmVars, apiVars, srcVars, llmVars, ttsVars, playVars,
                   queueVars>>

(* ------------------------------- str ----------------------------------- *)
\* str.lstrip / str.rstrip / str.strip (the whitespace of the model is " ")
RECURSIVE lstrip(_)
lstrip(text) ==
    IF text # <<>> /\ Head(text) = " " THEN lstrip(Tail(text)) ELSE text

RECURSIVE rstrip(_)
rstrip(text) ==
    IF text # <<>> /\ text[Len(text)] = " "
    THEN rstrip(SubSeq(text, 1, Len(text) - 1))
    ELSE text

strip(text) == rstrip(lstrip(text))

(* ----------------------- llm.py: generate_stream ----------------------- *)
\* Step 3: if buffer.strip(): the response to the utterance is streamed;
\* otherwise the loop is back at Step 1 at once
Step3 ==
    /\ llm_pc' = IF strip(llm_buffer) # <<>> THEN "gen" ELSE "first"
    /\ llm_left' = IF strip(llm_buffer) # <<>> THEN MaxStream ELSE 0

\* Step 1: first_text = await text_queue.get(); "END" ends the loop, any
\* other fragment starts the buffer. first_text.strip() of an item that is
\* not text raises AttributeError, which except asyncio.QueueEmpty does not
\* catch: the generator ends with the exception
LlmFirstText ==
    /\ llm_pc = "first"
    /\ text_queue # <<>>
    /\ text_queue' = Tail(text_queue)
    /\ IF Head(text_queue).text = END
       THEN llm_pc' = "done" /\ UNCHANGED llm_buffer
       ELSE IF Head(text_queue).text = NonText
       THEN llm_pc' = "raised" /\ UNCHANGED llm_buffer
       ELSE llm_pc' = "accum" /\ llm_buffer' = strip(Head(text_queue).text)
    /\ UNCHANGED <<llm_left, response_queue, tts_chunk_queue, cmVars,
                   apiVars, srcVars, asrVars, ttsVars, playVars>>

\* the buffer of Step 2 overwritten by the fragment
LlmMoreText_Overwrite ==
    /\ llm_pc = "accum"
    /\ text_queue # <<>>
    /\ text_queue' = Tail(text_queue)
    /\ IF Head(text_queue).text = END
       THEN Step3 /\ UNCHANGED llm_buffer
       ELSE IF Head(text_queue).text = NonText
       THEN llm_pc' = "raised" /\ UNCHANGED <<llm_buffer, llm_left>>
       ELSE /\ llm_buffer' = strip(Head(text_queue).text)
            /\ UNCHANGED <<llm_pc, llm_left>>
    /\ UNCHANGED <<response_queue, tts_chunk_queue, cmVars, apiVars, srcVars,
                   asrVars, ttsVars, playVars>>

\* Step 2: more_text arrives within the timeout; "END" closes the utterance,
\* any other fragment is appended to the buffer after a space.
\* more_text.strip() of an item that is not text raises AttributeError,
\* which except asyncio.TimeoutError does not catch
LlmMoreText ==
    /\ llm_pc = "accum"
    /\ text_queue # <<>>
    /\ text_queue' = Tail(text_queue)
    /\ IF Head(text_queue).text = END
       THEN Step3 /\ UNCHANGED llm_buffer
       ELSE IF Head(text_queue).text = NonText
       THEN llm_pc' = "raised" /\ UNCHANGED <<llm_buffer, llm_left>>
       ELSE /\ llm_buffer' = llm_buffer \o <<" ">> \o
                                 strip(Head(text_queue).text)
            /\ UNCHANGED <<llm_pc, llm_left>>
    /\ UNCHANGED <<response_queue, tts_chunk_queue, cmVars, apiVars, srcVars,
                   asrVars, ttsVars, playVars>>

\* Step 2: asyncio.TimeoutError, the queue stayed empty for self.timeout
LlmTimeoutText ==
    /\ llm_pc = "accum"
    /\ text_queue = <<>>
    /\ Step3
    /\ UNCHANGED <<llm_buffer, queueVars, cmVars, apiVars, srcVars, asrVars,
                   ttsVars, playVars>>

\* the responder task of the pipeline takes its turn on the event loop
LlmFirst ==
    /\ LoopTurn
    /\ LlmFirstText
    /\ UNCHANGED llmLog

LlmMore ==
    /\ LoopTurn
    /\ LlmMoreText
    /\ UNCHANGED llmLog

LlmTimeout ==
    /\ LoopTurn
    /\ LlmTimeoutText
    /\ UNCHANGED llmLog

\* Step 3: generate_stream yields a response chunk and llm_interface puts
\* it on response_queue; the coordinator is not touched
LlmChunk(text) ==
    /\ LoopTurn
    /\ llm_pc = "gen"
    /\ llm_left > 0
    /\ CanPut(response_queue)
    /\ response_queue' = Append(response_queue, Item(text, current_session_id))
    /\ llm_left' = llm_left - 1
    /\ UNCHANGED <<llm_pc, llm_buffer, llmLog, text_queue, tts_chunk_queue,
                   cmVars, apiVars, srcVars, asrVars, ttsVars, playVars>>

\* Step 3: the response stream ends; back to Step 1
LlmGenEnd ==
    /\ LoopTurn
    /\ llm_pc = "gen"
    /\ llm_pc' = "first"
    /\ llm_left' = 0
    /\ UNCHANGED <<llm_buffer, llmLog, queueVars, cmVars, apiVars, srcVars,
                   asrVars, ttsVars, playVars>>

\* error_response of _generate_anthropic_stream, an apology sentence
error_response == <<"s", "o", "r", "r", "y", ".">>

\* Step 3: the API call of _generate_anthropic_stream, or its stream,
\* raises: the except clause of _generate_anthropic_stream is entered
LlmFail ==
    /\ LoopTurn
    /\ llm_pc = "gen"
    /\ llm_pc' = "apology"
    /\ UNCHANGED <<llm_left, llm_buffer, llmLog, queueVars, cmVars, apiVars,
                   srcVars, asrVars, ttsVars, playVars>>

\* an except clause that yields nothing
LlmApology_Silent ==
    /\ LoopTurn
    /\ llm_pc = "apology"
    /\ llm_pc' = "first"
    /\ llm_left' = 0
    /\ UNCHANGED <<llm_buffer, llmLog, queueVars, cmVars, apiVars, srcVars,
                   asrVars, ttsVars, playVars>>

\* the except clause yields error_response + " ", the stage puts it on the
\* response channel, the generator ends and the loop is back at Step 1
LlmApology ==
    /\ LoopTurn
    /\ llm_pc = "apology"
    /\ CanPut(response_queue)
    /\ response_queue' = Append(response_queue,
                                Item(error_response \o <<" ">>,
                                     current_session_id))
    /\ llm_pc' = "first"
    /\ llm_left' = 0
    /\ UNCHANGED <<llm_buffer, llmLog, text_queue, tts_chunk_queue, cmVars,
                   apiVars, srcVars, asrVars, ttsVars, playVars>>

\* PROCESSING -> RESPONDING when the responder begins emitting output
ResponderStarts ==
    /\ LoopTurn
    /\ state = PROCESSING
    /\ llm_pc = "gen"
    /\ set_state(RESPONDING)
    /\ UNCHANGED <<interrupt_event, cleanup_events, current_session_id,
                   apiVars, pipeVars>>

(* ---------------------- tts.py: synthesize_stream ---------------------- *)
\* _should_send that knows the ASCII terminals only
_should_send_AsciiOnly(text) ==
    LET t == rstrip(text) IN t # <<>> /\ t[Len(t)] \in {".", "!", "?"}

\* _should_send: text.rstrip().endswith(('.', '!', '?', U+3002, U+FF01,
\* U+FF1F))
_should_send(text) ==
    LET t == rstrip(text) IN t # <<>> /\ t[Len(t)] \in Terminals

\* the loop body that drops the accumulated remainder at "END"
synthesize_stream_DropRemainder(text) ==
    /\ IF text = END
       THEN /\ tts_final' = TRUE
            /\ tts_pc' = "done"
            /\ UNCHANGED buffer
       ELSE IF text = NonText
       THEN UNCHANGED <<buffer, tts_pc, tts_final>>
       ELSE /\ buffer' = IF buffer # <<>>
                         THEN buffer \o <<" ">> \o strip(text)
                         ELSE strip(text)
            /\ tts_pc' = IF _should_send(buffer') THEN "synth" ELSE "get"
            /\ UNCHANGED tts_final
    /\ tts_left' = IF tts_pc' = "synth" THEN MaxStream ELSE 0

\* the loop body of synthesize_stream for the text got: "END" synthesises a
\* remainder that is not blank and ends the loop; any other text is stripped
\* and appended to buffer (after a single space unless buffer is empty), and
\* buffer is synthesised when _should_send(buffer). text.strip() of an item
\* that is not text raises AttributeError: except Exception prints it and
\* continues with the next get
synthesize_stream(text) ==
    /\ IF text = END
       THEN /\ tts_final' = TRUE
            /\ tts_pc' = IF strip(buffer) # <<>> THEN "synth" ELSE "done"
            /\ UNCHANGED buffer
       ELSE IF text = NonText
       THEN UNCHANGED <<buffer, tts_pc, tts_final>>
       ELSE /\ buffer' = IF buffer # <<>>
                         THEN buffer \o <<" ">> \o strip(text)
                         ELSE strip(text)
            /\ tts_pc' = IF _should_send(buffer') THEN "synth" ELSE "get"
            /\ UNCHANGED tts_final
    /\ tts_left' = IF tts_pc' = "synth" THEN MaxStream ELSE 0

\* text = await text_queue.get(), then the loop body
TtsGetText ==
    /\ tts_pc = "get"
    /\ response_queue # <<>>
    /\ response_queue' = Tail(response_queue)
    /\ synthesize_stream(Head(response_queue).text)
    /\ tts_buf' = IF Head(response_queue).text \in {END, NonText}
                  THEN tts_buf
                  ELSE tts_buf \cup {Head(response_queue).sid}
    /\ UNCHANGED <<text_queue, tts_chunk_queue, cmVars, apiVars, srcVars,
                   asrVars, llmVars, playVars>>

\* the synthesizer task of the pipeline takes its turn on the event loop
TtsGet ==
    /\ LoopTurn
    /\ TtsGetText
    /\ UNCHANGED ttsLog

\* _synthesize_sentence yields an audio chunk and tts_interface puts it on
\* tts_chunk_queue
TtsChunk ==
    /\ LoopTurn
    /\ tts_pc = "synth"
    /\ tts_left > 0
    /\ CanPut(tts_chunk_queue)
    /\ tts_chunk_queue' = Append(tts_chunk_queue, Item("audio", Min(tts_buf)))
    /\ tts_left' = tts_left - 1
    /\ UNCHANGED <<tts_pc, buffer, tts_buf, tts_final, ttsLog, text_queue,
                   response_queue, cmVars, apiVars, srcVars, asrVars,
                   llmVars, playVars>>

\* the synthesis stream of the unit ends: buffer = "", next get
TtsSynthEnd ==
    /\ LoopTurn
    /\ tts_pc = "synth"
    /\ buffer' = <<>>
    /\ tts_buf' = {}
    /\ tts_left' = 0
    /\ tts_pc' = IF tts_final THEN "done" ELSE "get"
    /\ UNCHANGED <<tts_final, ttsLog, queueVars, cmVars, apiVars, srcVars,
                   asrVars, llmVars, playVars>>

\* _synthesize_sentence: the connection, the request or the audio stream
\* raises: the except clause of _synthesize_sentence is entered
TtsFail ==
    /\ LoopTurn
    /\ tts_pc = "synth"
    /\ tts_pc' = "failed"
    /\ UNCHANGED <<buffer, tts_buf, tts_left, tts_final, ttsLog, queueVars,
                   cmVars, apiVars, srcVars, asrVars, llmVars, playVars>>

\* the except clause prints and _synthesize_sentence ends; synthesize_stream
\* goes on as after any unit: buffer = "", next get (or break after "END")
TtsRecover ==
    /\ LoopTurn
    /\ tts_pc = "failed"
    /\ buffer' = <<>>
    /\ tts_buf' = {}
    /\ tts_left' = 0
    /\ tts_pc' = IF tts_final THEN "done" ELSE "get"
    /\ UNCHANGED <<tts_final, ttsLog, queueVars, cmVars, apiVars, srcVars,
                   asrVars, llmVars, playVars>>

(* --------------------- audio_player.py: play_audio --------------------- *)
\* outdata.fill(0) / outdata[pos:] = 0
Silence(n) == [i \in 1..n |-> 0]

\* the while loop that loses the remainder of a head frame served in part
RECURSIVE FillOutput_DropRemainder(_, _)
FillOutput_DropRemainder(deque, samples_needed) ==
    IF samples_needed = 0 \/ deque = <<>>
    THEN [out |-> <<>>, rest |-> deque]
    ELSE LET audio_chunk == Head(deque) IN
         IF Len(audio_chunk) <= samples_needed
         THEN LET r == FillOutput_DropRemainder(Tail(deque),
                            samples_needed - Len(audio_chunk))
              IN  [out |-> audio_chunk \o r.out, rest |-> r.rest]
         ELSE [out |-> SubSeq(audio_chunk, 1, samples_needed),
               rest |-> Tail(deque)]

\* the while loop of _audio_callback: take from the head frame, whole when
\* it is not longer than what is still needed, else a prefix of it (the
\* remainder stays as the new head), until the request is met or the buffer
\* is exhausted. out: the samples copied; rest: the buffer left
RECURSIVE FillOutput(_, _)
FillOutput(deque, samples_needed) ==
    IF samples_needed = 0 \/ deque = <<>>
    THEN [out |-> <<>>, rest |-> deque]
    ELSE LET audio_chunk == Head(deque) IN
         IF Len(audio_chunk) <= samples_needed
         THEN LET r == FillOutput(Tail(deque),
                                  samples_needed - Len(audio_chunk))
              IN  [out |-> audio_chunk \o r.out, rest |-> r.rest]
         ELSE [out |-> SubSeq(audio_chunk, 1, samples_needed),
               rest |-> <<SubSeq(audio_chunk, samples_needed + 1,
                                 Len(audio_chunk))>> \o Tail(deque)]

\* _audio_callback that applies the prebuffer test on every call, started
\* or not
_audio_callback_Rebuffer(frames) ==
    IF total_samples_buffered < min_buffer_samples
    THEN /\ outdata' = Silence(frames)
         /\ UNCHANGED <<audio_buffer, total_samples_buffered,
                        started_playback, underrun_count>>
    ELSE /\ started_playback' = TRUE
         /\ LET r == FillOutput(audio_buffer, frames) IN
            /\ outdata' = r.out \o Silence(frames - Len(r.out))
            /\ audio_buffer' = r.rest
            /\ total_samples_buffered' = total_samples_buffered - Len(r.out)
            /\ underrun_count' =
                  underrun_count + (IF Len(r.out) < frames THEN 1 ELSE 0)

\* _audio_callback that counts an underrun only when the buffer is empty
_audio_callback_MissedUnderrun(frames) ==
    IF ~started_playback /\ total_samples_buffered < min_buffer_samples
    THEN /\ outdata' = Silence(frames)
         /\ UNCHANGED <<audio_buffer, total_samples_buffered,
                        started_playback, underrun_count>>
    ELSE /\ started_playback' = TRUE
         /\ LET r == FillOutput(audio_buffer, frames) IN
            /\ outdata' = r.out \o Silence(frames - Len(r.out))
            /\ audio_buffer' = r.rest
            /\ total_samples_buffered' = total_samples_buffered - Len(r.out)
            /\ underrun_count' =
                  underrun_count + (IF audio_buffer = <<>> THEN 1 ELSE 0)

\* _audio_callback, under buffer_lock: silence and nothing else while
\* playback has not started and the total is below min_buffer_samples;
\* otherwise started_playback = True, the output is filled from the buffer,
\* total_samples_buffered goes down by what was copied, and a shortfall
\* (an empty buffer included) is silence and one more underrun
_audio_callback(frames) ==
    IF ~started_playback /\ total_samples_buffered < min_buffer_samples
    THEN /\ outdata' = Silence(frames)
         /\ UNCHANGED <<audio_buffer, total_samples_buffered,
                        started_playback, underrun_count>>
    ELSE /\ started_playback' = TRUE
         /\ LET r == FillOutput(audio_buffer, frames) IN
            /\ outdata' = r.out \o Silence(frames - Len(r.out))
            /\ audio_buffer' = r.rest
            /\ total_samples_buffered' = total_samples_buffered - Len(r.out)
            /\ underrun_count' =
                  underrun_count + (IF Len(r.out) < frames THEN 1 ELSE 0)

\* _start_stream: opens and starts the output stream unless one is active
_start_stream ==
    is_playing' = TRUE

\* _stop_stream: stops and closes the stream if one is active
_stop_stream ==
    is_playing' = FALSE

\* _add_audio_chunk, under buffer_lock: append the frame and add its length
\* to total_samples_buffered
_add_audio_chunk(audio_data) ==
    /\ audio_buffer' = Append(audio_buffer, audio_data)
    /\ total_samples_buffered' = total_samples_buffered + Len(audio_data)

\* flush_and_stop: audio_buffer.clear() under the lock, then _stop_stream();
\* total_samples_buffered, started_playback and underrun_count are not
\* touched
flush_and_stop ==
    /\ audio_buffer' = <<>>
    /\ _stop_stream
    /\ UNCHANGED <<total_samples_buffered, started_playback, underrun_count,
                   outdata>>

\* np.frombuffer: the chunk decoded into an array of samples, each carrying
\* the chunk's session stamp (a chunk holds at least the prebuffer)
Decode(audio_chunk) == [i \in 1..min_buffer_samples |-> audio_chunk]

\* play_audio: _start_stream(), then audio_chunk = await audio_queue.get();
\* decode; push. The loop has no case for a terminal marker. len() of an
\* item that is neither bytes nor an array raises TypeError: except
\* Exception prints it and continues with the next get
PlayerGet ==
    /\ LoopTurn
    /\ player_pc = "run"
    /\ tts_chunk_queue # <<>>
    /\ CanPut(audio_buffer)
    /\ tts_chunk_queue' = Tail(tts_chunk_queue)
    /\ _start_stream
    /\ IF Head(tts_chunk_queue).text = NonAudio
       THEN UNCHANGED <<audio_buffer, total_samples_buffered>>
       ELSE _add_audio_chunk(Decode(Head(tts_chunk_queue)))
    /\ UNCHANGED <<player_pc, served, lockVars, bufLog, underrun_count,
                   started_playback, outdata, text_queue, response_queue,
                   cmVars, apiVars, srcVars, asrVars, llmVars, ttsVars>>

\* the output thread calls _audio_callback for a block the size of the head
\* frame: the frame is written to the output and removed
AudioCallback ==
    /\ is_playing
    /\ audio_buffer # <<>>
    /\ _audio_callback(Len(Head(audio_buffer)))
    /\ served' = [sid |-> Head(audio_buffer)[1].sid]
    /\ UNCHANGED <<player_pc, is_playing, lockVars, bufLog, queueVars,
                   cmVars, apiVars, srcVars, asrVars, llmVars, ttsVars>>

(* ------------- the playback buffer under push, pop and flush ----------- *)
\* a frame of n samples; no sample of it is silence
Frame(n) == [i \in 1..n |-> i]

\* play_audio is called: it starts the stream when none is active
BufStart ==
    /\ ~is_playing
    /\ _start_stream
    /\ UNCHANGED <<audio_buffer, total_samples_buffered, underrun_count,
                   started_playback, outdata>>
    /\ UNCHANGED <<player_pc, served, lockVars, bufLog, queueVars, cmVars,
                   apiVars, srcVars, asrVars, llmVars, ttsVars>>

\* push: play_audio adds a decoded chunk (len(audio_array) > 0)
BufPush(n) ==
    /\ total_samples_buffered + n <= MaxBuffered
    /\ _add_audio_chunk(Frame(n))
    /\ UNCHANGED <<underrun_count, started_playback, is_playing, outdata>>
    /\ UNCHANGED <<player_pc, served, lockVars, bufLog, queueVars, cmVars,
                   apiVars, srcVars, asrVars, llmVars, ttsVars>>

\* pop: the active stream asks the callback for a block of frames samples
BufPop(frames) ==
    /\ is_playing
    /\ underrun_count < MaxUnderruns
    /\ _audio_callback(frames)
    /\ UNCHANGED is_playing
    /\ UNCHANGED <<player_pc, served, lockVars, bufLog, queueVars, cmVars,
                   apiVars, srcVars, asrVars, llmVars, ttsVars>>

\* flush: a task awaits flush_and_stop()
BufFlush ==
    /\ flush_and_stop
    /\ UNCHANGED <<player_pc, served, lockVars, bufLog, queueVars, cmVars,
                   apiVars, srcVars, asrVars, llmVars, ttsVars>>

NextBuf ==
    \/ BufStart
    \/ \E n \in 1..MaxFrameLen : BufPush(n)
    \/ \E frames \in 1..MaxFrames : BufPop(frames)
    \/ BufFlush

SpecBuf == Init /\ [][NextBuf]_vars

(* ------------ the playback buffer with a log of its samples ----------- *)
\* a frame of n samples, each stamped with its rank among all the samples
\* pushed (no stamp is 0, the value of silence)
Stamped(n) == [i \in 1..n |-> Len(pushed) + i]

\* the samples of an output block that are not silence
Real(block) == SelectSeq(block, LAMBDA x : x # 0)

\* push with the log of the samples pushed
LogPush(n) ==
    /\ Len(pushed) + n <= MaxPushed
    /\ total_samples_buffered + n <= MaxBuffered
    /\ _add_audio_chunk(Stamped(n))
    /\ pushed' = pushed \o Stamped(n)
    /\ UNCHANGED <<popped, underrun_count, started_playback, is_playing,
                   outdata, player_pc, served, lockVars, queueVars, cmVars,
                   apiVars, srcVars, asrVars, llmVars, ttsVars>>

\* pop with the log of the real samples written to the output block
LogPop(frames) ==
    /\ is_playing
    /\ underrun_count < MaxUnderruns
    /\ _audio_callback(frames)
    /\ popped' = popped \o Real(outdata')
    /\ UNCHANGED <<pushed, is_playing, player_pc, served, lockVars,
                   queueVars, cmVars, apiVars, srcVars, asrVars, llmVars,
                   ttsVars>>

\* pushes and pops, no flush
NextPlay ==
    \/ BufStart
    \/ \E n \in 1..MaxFrameLen : LogPush(n)
    \/ \E frames \in 1..MaxFrames : LogPop(frames)

SpecPlay == Init /\ [][NextPlay]_vars

(* --------- the playback buffer and its lock, statement by statement ---- *)
\* a lock that is taken without waiting for its holder
acquire_NoWait(who) ==
    buffer_lock' = who

\* "with self.buffer_lock:" entered by who; threading.Lock blocks the caller
\* until the lock is free
acquire(who) ==
    /\ buffer_lock = "free"
    /\ buffer_lock' = who

\* the positions of the task at which it is inside a with block
InWith == {"append", "total", "clear"}

\* play_audio starts the stream (the task is not inside another call)
LockStart ==
    /\ push_pc = "idle"
    /\ BufStart

\* _add_audio_chunk(audio_data) is called: with self.buffer_lock
PushEnter(n) ==
    /\ push_pc = "idle"
    /\ total_samples_buffered + n <= MaxBuffered
    /\ acquire("task")
    /\ push_pc' = "append"
    /\ push_arg' = Frame(n)
    /\ UNCHANGED <<pop_pc, bufVars, player_pc, served, bufLog, queueVars,
                   cmVars, apiVars, srcVars, asrVars, llmVars, ttsVars>>

\* self.audio_buffer.append(audio_data)
PushAppend ==
    /\ push_pc = "append"
    /\ audio_buffer' = Append(audio_buffer, push_arg)
    /\ push_pc' = "total"
    /\ UNCHANGED <<buffer_lock, push_arg, pop_pc, total_samples_buffered,
                   underrun_count, started_playback, is_playing, outdata,
                   player_pc, served, bufLog, queueVars, cmVars, apiVars,
                   srcVars, asrVars, llmVars, ttsVars>>

\* self.total_samples_buffered += len(audio_data); the with block is left
PushTotal ==
    /\ push_pc = "total"
    /\ total_samples_buffered' = total_samples_buffered + Len(push_arg)
    /\ buffer_lock' = "free"
    /\ push_pc' = "idle"
    /\ push_arg' = <<>>
    /\ UNCHANGED <<pop_pc, audio_buffer, underrun_count, started_playback,
                   is_playing, outdata, player_pc, served, bufLog, queueVars,
                   cmVars, apiVars, srcVars, asrVars, llmVars, ttsVars>>

\* the output thread calls _audio_callback: with self.buffer_lock
PopEnter ==
    /\ pop_pc = "idle"
    /\ is_playing
    /\ underrun_count < MaxUnderruns
    /\ acquire("callback")
    /\ pop_pc' = "locked"
    /\ UNCHANGED <<push_pc, push_arg, bufVars, player_pc, served, bufLog,
                   queueVars, cmVars, apiVars, srcVars, asrVars, llmVars,
                   ttsVars>>

\* the body of _audio_callback, all of it inside the with block, which is
\* then left
PopBody(frames) ==
    /\ pop_pc = "locked"
    /\ _audio_callback(frames)
    /\ buffer_lock' = "free"
    /\ pop_pc' = "idle"
    /\ UNCHANGED <<push_pc, push_arg, is_playing, player_pc, served, bufLog,
                   queueVars, cmVars, apiVars, srcVars, asrVars, llmVars,
                   ttsVars>>

\* flush_and_stop is called: with self.buffer_lock
FlushEnter ==
    /\ push_pc = "idle"
    /\ acquire("task")
    /\ push_pc' = "clear"
    /\ UNCHANGED <<push_arg, pop_pc, bufVars, player_pc, served, bufLog,
                   queueVars, cmVars, apiVars, srcVars, asrVars, llmVars,
                   ttsVars>>

\* self.audio_buffer.clear(); the with block is left
FlushClear ==
    /\ push_pc = "clear"
    /\ audio_buffer' = <<>>
    /\ buffer_lock' = "free"
    /\ push_pc' = "stop"
    /\ UNCHANGED <<push_arg, pop_pc, total_samples_buffered, underrun_count,
                   started_playback, is_playing, outdata, player_pc, served,
                   bufLog, queueVars, cmVars, apiVars, srcVars, asrVars,
                   llmVars, ttsVars>>

\* self._stop_stream(), outside the with block
FlushStop ==
    /\ push_pc = "stop"
    /\ _stop_stream
    /\ push_pc' = "idle"
    /\ UNCHANGED <<buffer_lock, push_arg, pop_pc, audio_buffer,
                   total_samples_buffered, underrun_count, started_playback,
                   outdata, player_pc, served, bufLog, queueVars, cmVars,
                   apiVars, srcVars, asrVars, llmVars, ttsVars>>

NextLock ==
    \/ LockStart
    \/ \E n \in 1..MaxFrameLen : PushEnter(n)
    \/ PushAppend
    \/ PushTotal
    \/ PopEnter
    \/ \E frames \in 1..MaxFrames : PopBody(frames)
    \/ FlushEnter
    \/ FlushClear
    \/ FlushStop

SpecLock == Init /\ [][NextLock]_vars

(* ------------------------- main.py: test_asr --------------------------- *)
Next ==
    \/ AudioProducerPut
    \/ AudioProducerEnd
    \/ AsrSend
    \/ \E kind \in {"final", "interim", "empty"} : AsrReceive(kind)
    \/ AsrInterruptEnd
    \/ AsrResume
    \/ TextProducerPut
    \/ AsrDone
    \/ AsrFinish
    \/ LlmFirst
    \/ LlmMore
    \/ LlmTimeout
    \/ \E text \in ResponseChunks : LlmChunk(text)
    \/ LlmGenEnd
    \/ ResponderStarts
    \/ TtsGet
    \/ TtsChunk
    \/ TtsSynthEnd
    \/ PlayerGet
    \/ AudioCallback

Spec == Init /\ [][Next]_vars

\* the asyncio event loop runs every task that is ready and fires every
\* timer that is due
FairSpec ==
    /\ Spec
    /\ WF_vars(AudioProducerPut) /\ WF_vars(AudioProducerEnd)
    /\ WF_vars(AsrSend) /\ WF_vars(AsrInterruptEnd) /\ WF_vars(AsrResume)
    /\ WF_vars(TextProducerPut) /\ WF_vars(AsrFinish)
    /\ WF_vars(LlmFirst) /\ WF_vars(LlmMore) /\ WF_vars(LlmTimeout)
    /\ WF_vars(LlmGenEnd)
    /\ WF_vars(TtsGet) /\ WF_vars(TtsChunk) /\ WF_vars(TtsSynthEnd)
    /\ WF_vars(PlayerGet) /\ WF_vars(AudioCallback)

(* -------- the coordinator with the tasks that use it (asr, llm) -------- *)
\* source, sender, synthesizer and player hold no coordinator handle and
\* read nothing the coordinator writes
NextCoord ==
    \/ \E kind \in {"final", "interim", "empty"} : AsrReceive(kind)
    \/ AsrInterruptEnd
    \/ AsrResume
    \/ TextProducerPut
    \/ AsrDone
    \/ LlmFirst
    \/ LlmMore
    \/ LlmTimeout
    \/ \E text \in ResponseChunks : LlmChunk(text)
    \/ LlmGenEnd
    \/ ResponderStarts

SpecCoord == Init /\ [][NextCoord]_vars

(* ------------- test_asr_llm_tts.py: test_asr_to_llm -------------------- *)
\* feed_audio: the source has ended; await audio_queue.put("END")
FeedAudioEnd ==
    /\ LoopTurn
    /\ producer_pc = "run"
    /\ src_left = 0
    /\ CanPut(audio_queue)
    /\ audio_queue' = Append(audio_queue, END)
    /\ producer_pc' = "done"
    /\ UNCHANGED <<src_left, micVars, cmVars, apiVars, asrVars, llmVars,
                   ttsVars, playVars, queueVars>>

\* run_asr: transcribe_stream has returned; await text_queue.put("END")
RunAsrEnd ==
    /\ LoopTurn
    /\ asr_pc = "done"
    /\ CanPut(text_queue)
    /\ text_queue' = Append(text_queue, Item(END, asr_sid))
    /\ asr_pc' = "ended"
    /\ UNCHANGED <<sender_pc, results_left, recv_pc, cur_result, asr_sid,
                   response_queue, tts_chunk_queue, cmVars, apiVars, srcVars,
                   llmVars, ttsVars, playVars>>

\* run_llm: generate_stream has returned; await tts_queue.put("END")
RunLlmEnd ==
    /\ LoopTurn
    /\ llm_pc = "done"
    /\ CanPut(response_queue)
    /\ response_queue' = Append(response_queue, Item(END, current_session_id))
    /\ llm_pc' = "ended"
    /\ UNCHANGED <<llm_left, llm_buffer, llmLog, text_queue, tts_chunk_queue,
                   cmVars, apiVars, srcVars, asrVars, ttsVars, playVars>>

\* run_tts: an audio chunk yielded by synthesize_stream is written to the
\* wave file
RunTtsWrite ==
    /\ LoopTurn
    /\ tts_pc = "synth"
    /\ tts_left > 0
    /\ tts_left' = tts_left - 1
    /\ UNCHANGED <<tts_pc, buffer, tts_buf, tts_final, ttsLog, queueVars,
                   cmVars, apiVars, srcVars, asrVars, llmVars, playVars>>

NextTest ==
    \/ AudioProducerPut
    \/ FeedAudioEnd
    \/ AsrSend
    \/ \E kind \in {"final", "interim", "empty"} : AsrReceive(kind)
    \/ TextProducerPut
    \/ AsrDone
    \/ AsrFinish
    \/ RunAsrEnd
    \/ LlmFirst
    \/ LlmMore
    \/ LlmTimeout
    \/ \E text \in ResponseChunks : LlmChunk(text)
    \/ LlmGenEnd
    \/ RunLlmEnd
    \/ TtsGet
    \/ RunTtsWrite
    \/ TtsSynthEnd

SpecTest == Init /\ [][NextTest]_vars

(* -------------- the synthesizer fed with arbitrary fragments ----------- *)
\* the response chunks fed: plain, blank, with leading or trailing
\* whitespace, ending in an ASCII or in a full-width terminal
Fragments ==
    { <<"a">>, <<" ">>, <<" ", "a">>, <<"a", ".">>, <<".", " ">>,
      <<"a", "U+FF1F">> }

\* "END" has been put on the synthesizer's input
EndFed ==
    tts_final \/ \E i \in 1..Len(response_queue) : response_queue[i].text = END

\* the producer puts a response chunk on the synthesizer's input
SynthFeed(text) ==
    /\ ~EndFed
    /\ Len(received) + Len(response_queue) < MaxFragments
    /\ CanPut(response_queue)
    /\ response_queue' = Append(response_queue, Item(text, current_session_id))
    /\ UNCHANGED <<text_queue, tts_chunk_queue, cmVars, apiVars, srcVars,
                   asrVars, llmVars, ttsVars, playVars>>

\* the producer puts "END" after its last chunk
SynthFeedEnd ==
    /\ ~EndFed
    /\ CanPut(response_queue)
    /\ response_queue' = Append(response_queue, Item(END, current_session_id))
    /\ UNCHANGED <<text_queue, tts_chunk_queue, cmVars, apiVars, srcVars,
                   asrVars, llmVars, ttsVars, playVars>>

\* the synthesizer gets a text; the log records the fragment got and, when
\* _synthesize_sentence is called, its argument, the number of fragments
\* got by then and whether the call is the one made at "END"
SynthGet ==
    /\ TtsGetText
    /\ received' = IF Head(response_queue).text = END
                   THEN received
                   ELSE Append(received, Head(response_queue).text)
    /\ units' = IF tts_pc' = "synth"
                THEN Append(units, [text |-> buffer', upto |-> Len(received'),
                                    final |-> tts_final'])
                ELSE units

NextTts ==
    \/ \E text \in Fragments : SynthFeed(text)
    \/ SynthFeedEnd
    \/ SynthGet
    \/ TtsChunk
    \/ TtsSynthEnd

SpecTts == Init /\ [][NextTts]_vars

(* --------------- the responder fed with arbitrary fragments ------------ *)
\* the transcripts fed: the recognizer yields result['text'].strip() and
\* only when it is not empty, so a transcript is never blank and has no
\* surrounding whitespace; it may hold several words
Transcripts ==
    { <<"a">>, <<"b">>, <<"a", " ", "b">> }

\* the recognizer stage puts a transcript on the responder's input
UttFeed(text) ==
    /\ asr_pc = "run"
    /\ Len(heard) + Len(text_queue) < MaxFragments
    /\ CanPut(text_queue)
    /\ text_queue' = Append(text_queue, Item(text, asr_sid))
    /\ UNCHANGED <<response_queue, tts_chunk_queue, cmVars, apiVars, srcVars,
                   asrVars, llmVars, ttsVars, playVars>>

\* the recognizer stage puts "END" after its last transcript
UttFeedEnd ==
    /\ asr_pc = "run"
    /\ CanPut(text_queue)
    /\ text_queue' = Append(text_queue, Item(END, asr_sid))
    /\ asr_pc' = "ended"
    /\ UNCHANGED <<sender_pc, results_left, recv_pc, cur_result, asr_sid,
                   response_queue, tts_chunk_queue, cmVars, apiVars, srcVars,
                   llmVars, ttsVars, playVars>>

\* the log when Step 2 is left: the buffer, the number of fragments got by
\* then and whether "END" closed it; and, when Step 3 calls
\* _generate_anthropic_stream, its argument
LogClose(final) ==
    /\ utterances' = Append(utterances, [text |-> llm_buffer,
                                         upto |-> Len(heard),
                                         final |-> final])
    /\ inputs' = IF llm_pc' = "gen" THEN Append(inputs, llm_buffer)
                 ELSE inputs

\* Step 1 with the log of the fragment got
UttFirst ==
    /\ LlmFirstText
    /\ heard' = IF Head(text_queue).text = END
                THEN heard
                ELSE Append(heard, Head(text_queue).text)
    /\ UNCHANGED <<utterances, inputs, histVars>>

\* Step 2 with the log of the fragment got or of the utterance closed
UttMore ==
    /\ LlmMoreText
    /\ IF Head(text_queue).text = END
       THEN LogClose(TRUE) /\ UNCHANGED heard
       ELSE /\ heard' = Append(heard, Head(text_queue).text)
            /\ UNCHANGED <<utterances, inputs>>
    /\ UNCHANGED histVars

\* the timeout of Step 2 with the log of the utterance closed
UttTimeout ==
    /\ LlmTimeoutText
    /\ LogClose(FALSE)
    /\ UNCHANGED <<heard, histVars>>

NextLlm ==
    \/ \E text \in Transcripts : UttFeed(text)
    \/ UttFeedEnd
    \/ UttFirst
    \/ UttMore
    \/ UttTimeout
    \/ \E text \in ResponseChunks : LlmChunk(text)
    \/ LlmGenEnd

SpecLlm == Init /\ [][NextLlm]_vars

\* the event loop runs the responder whenever it is ready and fires the
\* timeout of Step 2 when it is due
FairLlm ==
    /\ SpecLlm
    /\ WF_vars(UttFirst) /\ WF_vars(UttMore) /\ WF_vars(UttTimeout)
    /\ WF_vars(LlmGenEnd)

(* ------------- llm.py: _generate_anthropic_stream, history ------------- *)
\* self.message_history[-20:], the last history_limit messages
Last(history) ==
    IF Len(history) > history_limit
    THEN SubSeq(history, Len(history) - history_limit + 1, Len(history))
    ELSE history

\* the texts text_stream may deliver: a word, or whitespace only
StreamTexts == {<<"w">>, <<" ">>}

\* everything but the history of the responder
notHist ==
    <<llm_pc, llm_left, llm_buffer, heard, utterances, inputs, queueVars,
      cmVars, apiVars, srcVars, asrVars, ttsVars, playVars>>

\* Step 3 calls _generate_anthropic_stream(buffer): the user message is
\* appended, the history is cut to its last 20 messages and a copy of it is
\* sent with the request
GenCall ==
    /\ gen_pc = "idle"
    /\ turns < MaxTurns
    /\ turns' = turns + 1
    /\ message_history' = Last(Append(message_history, "user"))
    /\ messages' = message_history'
    /\ assistant_response' = <<>>
    /\ gen_pc' = "stream"
    /\ UNCHANGED notHist

\* a text arrives on text_stream: assistant_response += text
GenText(text) ==
    /\ gen_pc = "stream"
    /\ Len(assistant_response) < MaxStream
    /\ assistant_response' = assistant_response \o text
    /\ UNCHANGED <<message_history, messages, gen_pc, turns, notHist>>

\* the text stream ends: the assistant message is appended when the
\* response is not blank
GenDone ==
    /\ gen_pc = "stream"
    /\ message_history' = IF strip(assistant_response) # <<>>
                          THEN Append(message_history, "assistant")
                          ELSE message_history
    /\ gen_pc' = "idle"
    /\ UNCHANGED <<messages, assistant_response, turns, notHist>>

\* the request or its stream raises: the except clause appends the apology
\* as the assistant message
GenFail ==
    /\ gen_pc = "stream"
    /\ message_history' = Append(message_history, "assistant")
    /\ gen_pc' = "idle"
    /\ UNCHANGED <<messages, assistant_response, turns, notHist>>

NextHistory ==
    \/ GenCall
    \/ \E text \in StreamTexts : GenText(text)
    \/ GenDone
    \/ GenFail

SpecHistory == Init /\ [][NextHistory]_vars

(* ------- responder and synthesizer with failing service calls --------- *)
NextFault ==
    \/ \E text \in Transcripts : UttFeed(text)
    \/ UttFeedEnd
    \/ UttFirst
    \/ UttMore
    \/ UttTimeout
    \/ \E text \in ResponseChunks : LlmChunk(text)
    \/ LlmGenEnd
    \/ LlmFail
    \/ LlmApology
    \/ RunLlmEnd
    \/ TtsGet
    \/ RunTtsWrite
    \/ TtsSynthEnd
    \/ TtsFail
    \/ TtsRecover

SpecFault == Init /\ [][NextFault]_vars

(* ---------- the stages fed with items that are not payload ------------ *)
\* an item that is not audio is put on the playback channel in the place of
\* a chunk of the unit being synthesised
PlaybackFeedNonAudio ==
    /\ LoopTurn
    /\ tts_pc = "synth"
    /\ tts_left > 0
    /\ CanPut(tts_chunk_queue)
    /\ tts_chunk_queue' = Append(tts_chunk_queue,
                                 Item(NonAudio, Min(tts_buf)))
    /\ tts_left' = tts_left - 1
    /\ UNCHANGED <<tts_pc, buffer, tts_buf, tts_final, ttsLog, text_queue,
                   response_queue, cmVars, apiVars, srcVars, asrVars,
                   llmVars, playVars>>

\* the responder, the synthesizer and the sink; their input channels carry
\* payload, "END" and items that are neither
NextMalformed ==
    \/ \E text \in Transcripts \cup {NonText} : UttFeed(text)
    \/ UttFeedEnd
    \/ UttFirst
    \/ UttMore
    \/ UttTimeout
    \/ \E text \in ResponseChunks \cup {NonText} : LlmChunk(text)
    \/ LlmGenEnd
    \/ RunLlmEnd
    \/ TtsGet
    \/ TtsChunk
    \/ PlaybackFeedNonAudio
    \/ TtsSynthEnd
    \/ PlayerGet
    \/ AudioCallback

SpecMalformed == Init /\ [][NextMalformed]_vars

(* ------- responder and synthesizer fed with payload only --------------- *)
\* what the user may say: a transcript is any text the recognition service
\* returns, stripped and not empty; the word "END" is one of them
Spoken == Transcripts \cup {END}

\* what the language model may stream: generate_stream yields text + " ",
\* and the text may be the word "END"
Streamed == ResponseChunks \cup {END \o <<" ">>}

\* the stages of main.py from the responder on; no stage of main.py puts a
\* terminal marker, every item on the channels is payload
NextPayload ==
    \/ \E text \in Spoken : UttFeed(text)
    \/ UttFirst
    \/ UttMore
    \/ UttTimeout
    \/ \E text \in Streamed : LlmChunk(text)
    \/ LlmGenEnd
    \/ TtsGet
    \/ TtsChunk
    \/ TtsSynthEnd

SpecPayload == Init /\ [][NextPayload]_vars

(* ------------- transcribe_stream with its audio producer --------------- *)
\* the producer of main.py or of test_asr_llm_tts.py (which puts "END" when
\* the source ends), the sender, the receiver and the consumer of the
\* transcripts
NextAsr ==
    \/ AudioProducerPut
    \/ AudioProducerEnd
    \/ FeedAudioEnd
    \/ AsrSend
    \/ \E kind \in {"final", "interim", "empty"} : AsrReceive(kind)
    \/ TextProducerPut
    \/ AsrDone
    \/ AsrFinish
    \/ LlmFirst
    \/ LlmMore
    \/ LlmTimeout

SpecAsr == Init /\ [][NextAsr]_vars

\* the event loop runs every task that is ready
FairAsr ==
    /\ SpecAsr
    /\ WF_vars(AudioProducerPut) /\ WF_vars(AsrSend)
    /\ WF_vars(TextProducerPut) /\ WF_vars(AsrFinish)
    /\ WF_vars(LlmFirst) /\ WF_vars(LlmMore) /\ WF_vars(LlmTimeout)

(* ------------- play_audio cancelled: the wait for the drain ------------ *)
\* play_audio is called: _start_stream(), once, before the play loop
PlayStart ==
    /\ player_pc = "run"
    /\ _start_stream
    /\ player_pc' = "loop"
    /\ UNCHANGED <<audio_buffer, total_samples_buffered, underrun_count,
                   started_playback, outdata>>
    /\ UNCHANGED <<served, lockVars, bufLog, queueVars, cmVars, apiVars,
                   srcVars, asrVars, llmVars, ttsVars>>

\* the play loop adds a decoded chunk to the buffer
PlayPush(n) ==
    /\ player_pc = "loop"
    /\ BufPush(n)

\* the active stream asks the callback for a block of frames samples
PlayPop(frames) ==
    /\ is_playing
    /\ _audio_callback(frames)
    /\ underrun_count' <= MaxUnderruns
    /\ UNCHANGED is_playing
    /\ UNCHANGED <<player_pc, served, lockVars, bufLog, queueVars, cmVars,
                   apiVars, srcVars, asrVars, llmVars, ttsVars>>

\* the task is cancelled while suspended in audio_queue.get(): except
\* asyncio.CancelledError breaks the play loop
PlayCancel ==
    /\ player_pc = "loop"
    /\ player_pc' = "drain"
    /\ UNCHANGED <<bufVars, served, lockVars, bufLog, queueVars, cmVars,
                   apiVars, srcVars, asrVars, llmVars, ttsVars>>

\* while self.audio_buffer: await asyncio.sleep(0.1) finds the buffer
\* empty; finally: _stop_stream(), and play_audio returns
PlayFinish ==
    /\ player_pc = "drain"
    /\ audio_buffer = <<>>
    /\ _stop_stream
    /\ player_pc' = "done"
    /\ UNCHANGED <<audio_buffer, total_samples_buffered, underrun_count,
                   started_playback, outdata>>
    /\ UNCHANGED <<served, lockVars, bufLog, queueVars, cmVars, apiVars,
                   srcVars, asrVars, llmVars, ttsVars>>

NextDrain ==
    \/ PlayStart
    \/ \E n \in 1..MaxFrameLen : PlayPush(n)
    \/ \E frames \in 1..MaxFrames : PlayPop(frames)
    \/ PlayCancel
    \/ PlayFinish

SpecDrain == Init /\ [][NextDrain]_vars

\* the output stream keeps calling the callback while it is active, and the
\* event loop runs the drain loop of play_audio
FairDrain ==
    /\ SpecDrain
    /\ WF_vars(\E frames \in 1..MaxFrames : PlayPop(frames))
    /\ WF_vars(PlayFinish)

(* ------------- flush_and_stop while play_audio is consuming ------------ *)
\* another task awaits flush_and_stop() while play_audio is in its loop
PlayFlush ==
    /\ player_pc = "loop"
    /\ BufFlush

NextFlush ==
    \/ PlayStart
    \/ \E n \in 1..MaxFrameLen : PlayPush(n)
    \/ \E frames \in 1..MaxFrames : PlayPop(frames)
    \/ PlayFlush
    \/ PlayCancel
    \/ PlayFinish

SpecFlush == Init /\ [][NextFlush]_vars

\* the callback is invoked as long as a stream is active
FairFlush ==
    /\ SpecFlush
    /\ WF_vars(\E frames \in 1..MaxFrames : PlayPop(frames))
    /\ WF_vars(PlayFinish)

(* ------------ sources.py: RealTimeMicrophoneSource and its lock -------- *)
\* stream_audio up to the loop: the input stream is started, recording = True
MicStart ==
    /\ LoopTurn
    /\ mic_pc = "init"
    /\ recording' = TRUE
    /\ mic_pc' = "loop"
    /\ UNCHANGED <<capture_buffer, capture_lock, mic_cb, micLog, src_left,
                   producer_pc, audio_queue, cmVars, apiVars, asrVars,
                   llmVars, ttsVars, playVars, queueVars>>

\* the input thread calls _audio_callback with a captured block: when
\* recording it converts the block and enters "with self.buffer_lock"
\* (waiting for the lock), otherwise the block is dropped
MicCallbackEnter ==
    /\ mic_cb = "idle"
    /\ src_left > 0
    /\ src_left' = src_left - 1
    /\ IF recording
       THEN /\ capture_lock = "free"
            /\ capture_lock' = "callback"
            /\ mic_cb' = "locked"
       ELSE UNCHANGED <<capture_lock, mic_cb>>
    /\ UNCHANGED <<recording, capture_buffer, mic_pc, micLog, producer_pc,
                   audio_queue, cmVars, apiVars, asrVars, llmVars, ttsVars,
                   playVars, queueVars>>

\* the block the callback converts: its rank among the blocks appended,
\* and whether recording is on at the time of the append
Captured == [id |-> Len(captured) + 1, rec |-> recording]

\* _audio_callback: self.audio_buffer.append(audio_bytes), lock released
MicCallbackAppend ==
    /\ mic_cb = "locked"
    /\ capture_buffer' = Append(capture_buffer, Captured)
    /\ captured' = Append(captured, Captured)
    /\ capture_lock' = "free"
    /\ mic_cb' = "idle"
    /\ UNCHANGED <<recording, mic_pc, yielded, src_left, producer_pc,
                   audio_queue, cmVars, apiVars, asrVars, llmVars, ttsVars,
                   playVars, queueVars>>

\* a loop turn that yields the head chunk and leaves it in the deque
MicLoop_Peek ==
    /\ LoopTurn
    /\ mic_pc = "loop"
    /\ recording
    /\ capture_lock = "free"
    /\ IF capture_buffer # <<>>
       THEN /\ yielded' = Append(yielded, Head(capture_buffer))
            /\ Len(yielded) < MaxChunks
            /\ capture_lock' = "task"
            /\ mic_pc' = "yielded"
       ELSE /\ mic_pc' = "sleep"
            /\ UNCHANGED <<yielded, capture_lock>>
    /\ UNCHANGED <<recording, capture_buffer, captured, mic_cb, src_left,
                   producer_pc, audio_queue, cmVars, apiVars, asrVars,
                   llmVars, ttsVars, playVars, queueVars>>

\* stream_audio, one turn of "while self.recording": the lock is taken; a
\* chunk that is there is popped and yielded from inside the with block,
\* otherwise the block is left and the task goes to asyncio.sleep
MicLoop ==
    /\ LoopTurn
    /\ mic_pc = "loop"
    /\ recording
    /\ capture_lock = "free"
    /\ IF capture_buffer # <<>>
       THEN /\ capture_buffer' = Tail(capture_buffer)
            /\ yielded' = Append(yielded, Head(capture_buffer))
            /\ capture_lock' = "task"
            /\ mic_pc' = "yielded"
       ELSE /\ mic_pc' = "sleep"
            /\ UNCHANGED <<capture_buffer, yielded, capture_lock>>
    /\ UNCHANGED <<recording, captured, mic_cb, src_left, producer_pc,
                   audio_queue, cmVars, apiVars, asrVars, llmVars, ttsVars,
                   playVars, queueVars>>

\* the consumer of the generator: await audio_queue.put(chunk) completes and
\* the generator is resumed after its yield: it leaves the with block (the
\* lock is released) and goes to asyncio.sleep
MicProducerPut ==
    /\ LoopTurn
    /\ mic_pc = "yielded"
    /\ CanPut(audio_queue)
    /\ audio_queue' = Append(audio_queue, "chunk")
    /\ capture_lock' = "free"
    /\ mic_pc' = "sleep"
    /\ UNCHANGED <<recording, capture_buffer, mic_cb, micLog, src_left,
                   producer_pc, cmVars, apiVars, asrVars, llmVars, ttsVars,
                   playVars, queueVars>>

\* await asyncio.sleep(0.01) returns
MicWake ==
    /\ LoopTurn
    /\ mic_pc = "sleep"
    /\ mic_pc' = "loop"
    /\ UNCHANGED <<recording, capture_buffer, capture_lock, mic_cb, micLog,
                   src_left, producer_pc, audio_queue, cmVars, apiVars,
                   asrVars, llmVars, ttsVars, playVars, queueVars>>

\* a task calls stop_recording() while stream_audio is suspended or ready:
\* recording = False (and the input stream is stopped and closed)
MicStop ==
    /\ LoopTurn
    /\ mic_pc \in {"loop", "yielded", "sleep"}
    /\ recording
    /\ recording' = FALSE
    /\ UNCHANGED <<capture_buffer, capture_lock, mic_pc, mic_cb, micLog,
                   src_left, producer_pc, audio_queue, cmVars, apiVars,
                   asrVars, llmVars, ttsVars, playVars, queueVars>>

\* "while self.recording" finds recording off: the loop is left, the finally
\* clause calls stop_recording() and the generator ends
MicEnd ==
    /\ LoopTurn
    /\ mic_pc = "loop"
    /\ ~recording
    /\ mic_pc' = "done"
    /\ UNCHANGED <<recording, capture_buffer, capture_lock, mic_cb, micLog,
                   src_left, producer_pc, audio_queue, cmVars, apiVars,
                   asrVars, llmVars, ttsVars, playVars, queueVars>>

NextMic ==
    \/ MicStart
    \/ MicCallbackEnter
    \/ MicCallbackAppend
    \/ MicLoop
    \/ MicProducerPut
    \/ MicWake
    \/ AsrSend
    \/ \E kind \in {"final", "interim", "empty"} : AsrReceive(kind)
    \/ TextProducerPut
    \/ AsrDone
    \/ AsrFinish

\* the microphone source feeding the recognizer stage
SpecMic == Init /\ [][NextMic]_vars

\* the microphone source, stopped at any time by another task, with the
\* sender of the recognizer taking the chunks off the audio channel
NextSource ==
    \/ MicStart
    \/ MicCallbackEnter
    \/ MicCallbackAppend
    \/ MicLoop
    \/ MicProducerPut
    \/ MicWake
    \/ MicStop
    \/ MicEnd
    \/ AsrSend

SpecSource == Init /\ [][NextSource]_vars

\* the event loop runs every task that is ready and the input thread
\* finishes a callback it has begun
FairSource ==
    /\ SpecSource
    /\ WF_vars(MicCallbackAppend)
    /\ WF_vars(MicLoop) /\ WF_vars(MicProducerPut) /\ WF_vars(MicWake)
    /\ WF_vars(MicEnd) /\ WF_vars(AsrSend)

(* ------------- the four channels of test_asr, puts and gets ------------ *)
\* asyncio.Queue.full(): never, when maxsize is 0
full(q) == maxsize > 0 /\ Len(q) >= maxsize

\* audio_producer: await audio_queue.put(chunk); suspends while full()
ChanAudioPut ==
    /\ ~full(audio_queue)
    /\ Len(audio_queue) < MaxQueued
    /\ audio_queue' = Append(audio_queue, "chunk")
    /\ UNCHANGED <<src_left, producer_pc, micVars, queueVars, cmVars, apiVars,
                   asrVars, llmVars, ttsVars, playVars>>

\* sender: chunk = await audio_queue.get()
ChanAudioGet ==
    /\ audio_queue # <<>>
    /\ audio_queue' = Tail(audio_queue)
    /\ UNCHANGED <<src_left, producer_pc, micVars, queueVars, cmVars, apiVars,
                   asrVars, llmVars, ttsVars, playVars>>

\* text_producer: await text_queue.put(text)
ChanTextPut ==
    /\ ~full(text_queue)
    /\ Len(text_queue) < MaxQueued
    /\ text_queue' = Append(text_queue, Item(<<"t">>, current_session_id))
    /\ UNCHANGED <<response_queue, tts_chunk_queue, cmVars, apiVars,
                   srcVars, asrVars, llmVars, ttsVars, playVars>>

\* generate_stream: await text_queue.get()
ChanTextGet ==
    /\ text_queue # <<>>
    /\ text_queue' = Tail(text_queue)
    /\ UNCHANGED <<response_queue, tts_chunk_queue, cmVars, apiVars,
                   srcVars, asrVars, llmVars, ttsVars, playVars>>

\* llm_interface: await response_queue.put(response_text)
ChanResponsePut ==
    /\ ~full(response_queue)
    /\ Len(response_queue) < MaxQueued
    /\ response_queue' =
          Append(response_queue, Item(<<"w">>, current_session_id))
    /\ UNCHANGED <<text_queue, tts_chunk_queue, cmVars, apiVars, srcVars,
                   asrVars, llmVars, ttsVars, playVars>>

\* synthesize_stream: await text_queue.get()
ChanResponseGet ==
    /\ response_queue # <<>>
    /\ response_queue' = Tail(response_queue)
    /\ UNCHANGED <<text_queue, tts_chunk_queue, cmVars, apiVars, srcVars,
                   asrVars, llmVars, ttsVars, playVars>>

\* tts_interface: await tts_chunk_queue.put(audio_chunk)
ChanPlaybackPut ==
    /\ ~full(tts_chunk_queue)
    /\ Len(tts_chunk_queue) < MaxQueued
    /\ tts_chunk_queue' =
          Append(tts_chunk_queue, Item("audio", current_session_id))
    /\ UNCHANGED <<text_queue, response_queue, cmVars, apiVars, srcVars,
                   asrVars, llmVars, ttsVars, playVars>>

\* play_audio: await audio_queue.get()
ChanPlaybackGet ==
    /\ tts_chunk_queue # <<>>
    /\ tts_chunk_queue' = Tail(tts_chunk_queue)
    /\ UNCHANGED <<text_queue, response_queue, cmVars, apiVars, srcVars,
                   asrVars, llmVars, ttsVars, playVars>>

NextQueue ==
    \/ ChanAudioPut
    \/ ChanAudioGet
    \/ ChanTextPut
    \/ ChanTextGet
    \/ ChanResponsePut
    \/ ChanResponseGet
    \/ ChanPlaybackPut
    \/ ChanPlaybackGet

SpecQueue == Init /\ [][NextQueue]_vars

(* ============================ properties =============================== *)

\* every stage's processing loop has returned
AllLoopsDone ==
    /\ producer_pc = "done"
    /\ asr_pc = "done"
    /\ llm_pc = "done"
    /\ tts_pc = "done"
    /\ player_pc = "done"

\* C1: for a finite audio source every stage channel receives its terminal
\* marker and every stage loop terminates: a run can only come to rest with
\* the responder and the synthesizer having consumed "END" and all five
\* loops returned.
C1_TerminalPropagation ==
    ENABLED Next \/ AllLoopsDone

\* the transition table of the conversation state machine
Table ==
    { <<LISTENING, PROCESSING>>, <<PROCESSING, RESPONDING>>,
      <<RESPONDING, INTERRUPTING>>, <<INTERRUPTING, LISTENING>> }

\* C2: every change of ConversationManager.state is one of the four table
\* transitions, each made at its event: LISTENING->PROCESSING when the
\* receiver yields a final transcript, PROCESSING->RESPONDING while the
\* responder emits, RESPONDING->INTERRUPTING when the receiver enters
\* trigger_interrupt, INTERRUPTING->LISTENING when trigger_interrupt returns.
C2_TableWalk ==
    [][ state' # state =>
          /\ <<state, state'>> \in Table
          /\ state' = PROCESSING => cur_result' = "final" /\ recv_pc' = "yield"
          /\ state' = RESPONDING => llm_pc = "gen"
          /\ state' = INTERRUPTING => recv_pc = "recv" /\ recv_pc' = "waiting"
          /\ state' = LISTENING => recv_pc = "waiting" /\ recv_pc' = "returned"
      ]_vars

\* C2 witness: a whole cycle of the table has been walked (a barge-in has
\* completed and the interrupting utterance has put the state to PROCESSING)
C2_Witness ==
    /\ current_session_id = 1
    /\ state = PROCESSING
    /\ recv_pc = "yield"

\* C3: INTERRUPTING is entered only from RESPONDING; LISTENING is entered
\* only by the return of trigger_interrupt, from INTERRUPTING.
C3_EntryStates ==
    [][ /\ (state' = INTERRUPTING /\ state # INTERRUPTING) => state = RESPONDING
        /\ (state' = LISTENING /\ state # LISTENING) =>
              state = INTERRUPTING /\ recv_pc = "waiting"
      ]_vars

\* C3 witness: LISTENING has been re-entered at the return of
\* trigger_interrupt
C3_Witness ==
    /\ recv_pc = "returned"
    /\ state = LISTENING
    /\ current_session_id > 0

\* a step in which a task's trigger_interrupt call finds RESPONDING
BargeInStep ==
    \E c \in Callers : ti_pc[c] # "starting" /\ ti_pc'[c] = "starting"

\* C4: under any interleaving of trigger_interrupt, set_state and
\* signal_cleanup_complete calls, current_session_id grows by exactly 1 in a
\* step that is a barge-in and is unchanged by every other step.
C4_SessionMonotone ==
    [][ current_session_id' =
          current_session_id + (IF BargeInStep THEN 1 ELSE 0) ]_vars

\* C4 witness: two barge-ins were made, by concurrent callers, and counted
C4_Witness ==
    /\ current_session_id = 2
    /\ \A c \in {1, 2} : InInterrupt(c)

\* C5: a final transcript handled while the session id the receiver holds
\* from its previous unit of work is behind the coordinator's (a barge-in
\* came in between) is discarded, never yielded to the text channel.
C5_StaleDiscarded ==
    [][ asr_sid # current_session_id => recv_pc' # "yield" ]_vars

\* C6: once a barge-in has completed, no chunk produced under an older
\* session id is pushed to the playback buffer or served to the output.
C6_NoStalePlayback ==
    [][ state # INTERRUPTING =>
          /\ Len(audio_buffer') > Len(audio_buffer) =>
                audio_buffer'[Len(audio_buffer')][1].sid = current_session_id
          /\ Len(audio_buffer') < Len(audio_buffer) =>
                Head(audio_buffer)[1].sid = current_session_id
      ]_vars

\* C7: whenever the interrupt signal is raised, each of llm, tts and
\* audio_player eventually acknowledges with signal_cleanup_complete.
C7_AllAcknowledge ==
    \A c \in Components : (interrupt_event ~> cleanup_events[c])

\* C8: every task suspended inside trigger_interrupt eventually returns
\* with the state set to LISTENING, whether or not anyone acknowledges.
C8_InterruptCompletes ==
    \A c \in Callers :
        InInterrupt(c) ~>
            (ti_pc[c] \in {"done_acked", "done_timeout"} /\ state = LISTENING)

\* C8 witness: a barge-in nobody acknowledged has returned by the timeout
C8_Witness ==
    \E c \in Callers :
        /\ ti_pc[c] = "done_timeout"
        /\ ti_got[c] = {}
        /\ state = LISTENING

\* C9: the step in which trigger_interrupt returns (either path) leaves the
\* state LISTENING, the interrupt signal clear and all three
\* acknowledgement flags clear.
C9_ResetOnReturn ==
    [][ \A c \in Callers :
          (InInterrupt(c) /\ ti_pc'[c] \in {"done_acked", "done_timeout"}) =>
              /\ state' = LISTENING
              /\ ~interrupt_event'
              /\ \A x \in Components : ~cleanup_events'[x]
      ]_vars

\* C9 witness: trigger_interrupt returned on the full-acknowledgement path
\* from INTERRUPTING and everything is reset
C9_Witness ==
    \E c \in Callers :
        /\ ti_pc[c] = "done_acked"
        /\ state = LISTENING
        /\ ~interrupt_event
        /\ \A x \in Components : ~cleanup_events[x]

\* C10: the step in which the responder emits the first chunk of a response
\* while the state is PROCESSING sets the state to RESPONDING.
C10_RespondingOnEmit ==
    [][ (state = PROCESSING /\ llm_pc = "gen" /\ llm_left = MaxStream
            /\ llm_left' < llm_left)
          => state' = RESPONDING ]_vars

\* C11: a trigger_interrupt call made in a state other than RESPONDING
\* (LISTENING, PROCESSING, or INTERRUPTING while another barge-in is in
\* progress) returns without entering the wait and changes neither the
\* state, the session id, the interrupt signal nor any acknowledgement flag.
C11_NoOpUnlessResponding ==
    [][ \A c \in Callers :
          (state # RESPONDING /\ ApiTriggerInterrupt(c)) =>
              /\ ti_pc'[c] = "returned_early"
              /\ UNCHANGED <<state, current_session_id, interrupt_event,
                             cleanup_events>>
      ]_vars

\* C11 witness: while one task is inside a barge-in (INTERRUPTING, signal
\* raised, an acknowledgement already in) another task's call has returned
\* early
C11_Witness ==
    \E c, d \in Callers :
        /\ ti_pc[c] = "waiting"
        /\ ti_pc[d] = "returned_early"
        /\ state = INTERRUPTING
        /\ interrupt_event
        /\ cleanup_events["llm"]

\* the sum of the lengths of the frames in a buffer
RECURSIVE SumLen(_)
SumLen(deque) ==
    IF deque = <<>> THEN 0 ELSE Len(Head(deque)) + SumLen(Tail(deque))

\* the concatenation of the frames in a buffer
RECURSIVE Flat(_)
Flat(deque) ==
    IF deque = <<>> THEN <<>> ELSE Head(deque) \o Flat(Tail(deque))

\* a step that is a pop (a call of _audio_callback by the active stream)
PopStep(frames) ==
    /\ is_playing
    /\ is_playing'
    /\ Len(outdata') = frames
    /\ _audio_callback(frames)

\* a step that is a push (a call of _add_audio_chunk)
PushStep ==
    /\ Len(audio_buffer') = Len(audio_buffer) + 1
    /\ SubSeq(audio_buffer', 1, Len(audio_buffer)) = audio_buffer

\* C12: after any sequence of push, pop and flush operations
\* total_samples_buffered is the sum of the lengths of the frames in
\* audio_buffer.
C12_TotalIsSum ==
    total_samples_buffered = SumLen(audio_buffer)

\* C13: a pop made while playback has not started and the total is below
\* min_buffer_samples outputs only silence and changes neither the frames,
\* the total, the started flag nor the underrun counter; a pop made while
\* playback has not started and the total is at least min_buffer_samples
\* marks playback started and serves real samples.
C13_Prebuffer ==
    [][ \A frames \in 1..MaxFrames :
          (~started_playback /\ PopStep(frames)) =>
              IF total_samples_buffered < min_buffer_samples
              THEN /\ outdata' = Silence(frames)
                   /\ UNCHANGED <<audio_buffer, total_samples_buffered,
                                  started_playback, underrun_count>>
              ELSE /\ started_playback'
                   /\ outdata'[1] # 0
      ]_vars

\* C14: a pop of n samples made after playback has started, with m samples
\* buffered: if m < n the output is the m buffered samples followed by n-m
\* silence samples, the buffer is left empty and the underrun counter grows
\* by exactly 1; if m >= n the output is the first n buffered samples and
\* the underrun counter is unchanged.
C14_PopServes ==
    [][ \A n \in 1..MaxFrames :
          (started_playback /\ PopStep(n)) =>
              LET all == Flat(audio_buffer)
                  m == Len(all)
              IN  IF m < n
                  THEN /\ outdata' = all \o Silence(n - m)
                       /\ audio_buffer' = <<>>
                       /\ underrun_count' = underrun_count + 1
                  ELSE /\ outdata' = SubSeq(all, 1, n)
                       /\ underrun_count' = underrun_count
      ]_vars

\* C14 witness: after the start a pop of 3 found 1 sample buffered: 1 real
\* sample and 2 of silence, the buffer empty, the first underrun counted
C14_Witness ==
    /\ started_playback
    /\ is_playing
    /\ outdata = <<2, 0, 0>>
    /\ audio_buffer = <<>>
    /\ underrun_count = 1

\* C15: once playback is marked started, a pop that finds the buffer
\* non-empty serves its head sample whatever the total is (also below
\* min_buffer_samples), and no push and no pop resets the started flag.
C15_ServedAfterStart ==
    [][ /\ \A frames \in 1..MaxFrames :
              (started_playback /\ audio_buffer # <<>> /\ PopStep(frames))
                  => outdata'[1] = Head(audio_buffer)[1]
        /\ (started_playback /\ PushStep) => started_playback'
        /\ (started_playback /\ \E frames \in 1..MaxFrames : PopStep(frames))
              => started_playback'
      ]_vars

\* C15 witness: playback had started and 2 samples (fewer than
\* min_buffer_samples) were buffered; a pop of 1 served the first of them
C15_Witness ==
    /\ started_playback
    /\ is_playing
    /\ total_samples_buffered = 1
    /\ audio_buffer = <<<<2>>>>
    /\ outdata = <<1>>
    /\ underrun_count = 0

\* C16: a flush leaves the playback buffer without frames, the total sample
\* count 0 and the started flag false.
C16_FlushResets ==
    [][ (audio_buffer # <<>> /\ audio_buffer' = <<>> /\ ~is_playing')
          => (total_samples_buffered' = 0 /\ ~started_playback') ]_vars

\* C17: every stage channel the pipeline runs on has a fixed capacity (10
\* for the audio and text channels, 20 for the response-text and playback
\* channels): it never holds more items than that, a put on a full channel
\* being suspended.
C17_BoundedChannels ==
    /\ Len(audio_queue) <= audio_maxsize
    /\ Len(text_queue) <= text_maxsize
    /\ Len(response_queue) <= llm_response_maxsize
    /\ Len(tts_chunk_queue) <= playback_maxsize

\* " ".join(texts)
RECURSIVE Join(_)
Join(texts) ==
    IF texts = <<>> THEN <<>>
    ELSE IF Len(texts) = 1 THEN texts[1]
    ELSE texts[1] \o <<" ">> \o Join(Tail(texts))

\* the fragments without the blank ones at the front
RECURSIVE DropBlankFront(_)
DropBlankFront(texts) ==
    IF texts # <<>> /\ strip(Head(texts)) = <<>>
    THEN DropBlankFront(Tail(texts))
    ELSE texts

\* the fragments stripped of surrounding whitespace and, blank ones at the
\* front dropped, joined by single spaces
JoinStripped(texts) ==
    Join(DropBlankFront([i \in 1..Len(texts) |-> strip(texts[i])]))

\* the text ends in a sentence terminal
EndsInTerminal(text) ==
    text # <<>> /\ text[Len(text)] \in Terminals

\* the fragments got after unit k-1 and up to unit k
FragmentsOf(k) ==
    SubSeq(received, IF k = 1 THEN 1 ELSE units[k - 1].upto + 1, units[k].upto)

\* the fragments got since the last unit
Pending ==
    SubSeq(received,
           IF units = <<>> THEN 1 ELSE units[Len(units)].upto + 1,
           Len(received))

\* C19 as stated: a unit is emitted exactly when the fragments got since the
\* previous unit, joined as they arrived by single spaces, end in one of the
\* six terminals, and the unit is that join.
C19_LiteralJoin ==
    /\ \A k \in 1..Len(units) :
          /\ units[k].text = Join(FragmentsOf(k))
          /\ ~units[k].final => EndsInTerminal(units[k].text)
          /\ \A n \in 1..(Len(FragmentsOf(k)) - 1) :
                ~EndsInTerminal(Join(SubSeq(FragmentsOf(k), 1, n)))
    /\ \A n \in 1..Len(Pending) :
          (tts_pc = "get" \/ n < Len(Pending)) =>
              ~EndsInTerminal(Join(SubSeq(Pending, 1, n)))

\* C19 (amended): each fragment is stripped of surrounding whitespace, and
\* the accumulation is the stripped fragments got since the previous unit
\* joined by single spaces (blank fragments at its front add nothing). A
\* unit is emitted exactly when the accumulation ends in one of the six
\* terminals; the unit is the whole accumulation, and the accumulation starts
\* again from empty after it.
C19_Segmentation ==
    /\ \A k \in 1..Len(units) :
          /\ units[k].text = JoinStripped(FragmentsOf(k))
          /\ ~units[k].final => EndsInTerminal(units[k].text)
          /\ \A n \in 1..(Len(FragmentsOf(k)) - 1) :
                ~EndsInTerminal(JoinStripped(SubSeq(FragmentsOf(k), 1, n)))
    /\ tts_pc = "get" =>
          /\ buffer = JoinStripped(Pending)
          /\ \A n \in 1..Len(Pending) :
                ~EndsInTerminal(JoinStripped(SubSeq(Pending, 1, n)))

\* C19 witness: the fragments "a" and "a." then the end of input have given
\* exactly one unit, "a a."
C19_Witness ==
    /\ received = << <<"a">>, <<"a", ".">> >>
    /\ tts_pc = "done"
    /\ Len(units) = 1
    /\ units[1].text = <<"a", " ", "a", ".">>

\* the call of _synthesize_sentence made at "END", if there was one, is the
\* last unit
HasFinalUnit ==
    units # <<>> /\ units[Len(units)].final

\* the fragments accumulated when "END" was got
Remainder ==
    IF HasFinalUnit THEN FragmentsOf(Len(units)) ELSE Pending

\* C20: once the end of input has been got the stage never gets again (it
\* synthesises and terminates); a remainder that is not empty is synthesised
\* exactly once, as the last unit, and an empty remainder gives no unit; so
\* when the stage has terminated the units are made of consecutive runs of
\* all the fragments got, each fragment in exactly one unit (blank fragments
\* of an empty remainder in none).
C20_RemainderOnce ==
    /\ tts_final => tts_pc \in {"synth", "done"}
    /\ \A k \in 1..Len(units) : units[k].final => (k = Len(units) /\ tts_final)
    /\ tts_final =>
          IF JoinStripped(Remainder) # <<>>
          THEN /\ HasFinalUnit
               /\ units[Len(units)].text = JoinStripped(Remainder)
               /\ units[Len(units)].upto = Len(received)
          ELSE ~HasFinalUnit
    /\ tts_pc = "done" =>
          /\ \A k \in 1..Len(units) :
                /\ units[k].upto > (IF k = 1 THEN 0 ELSE units[k - 1].upto)
                /\ units[k].text = JoinStripped(FragmentsOf(k))
          /\ \A i \in 1..Len(Pending) : strip(Pending[i]) = <<>>

\* C20 witness: "a." gave a unit, then "a" was left at the end of input and
\* was synthesised as a second, last unit; the stage has terminated
C20_Witness ==
    /\ tts_pc = "done"
    /\ received = << <<"a", ".">>, <<"a">> >>
    /\ Len(units) = 2
    /\ ~units[1].final
    /\ units[2] = [text |-> <<"a">>, upto |-> 2, final |-> TRUE]

\* the terminal marker put on the text channel has been taken by its consumer
TextEndTaken ==
    /\ asr_pc = "ended"
    /\ \A i \in 1..Len(text_queue) : text_queue[i].text # END

\* C18: once the consumer of a stage channel has taken the terminal marker,
\* a later get of it on that channel is not left suspended: it returns the
\* marker again.
C18_EndIdempotent ==
    (TextEndTaken /\ llm_pc = "first") => ENABLED LlmFirst

\* the fragments got after utterance k-1 and up to utterance k
UtteranceFragments(k) ==
    SubSeq(heard, IF k = 1 THEN 1 ELSE utterances[k - 1].upto + 1,
           utterances[k].upto)

\* the fragments got since the last utterance was closed
Accumulating ==
    SubSeq(heard,
           IF utterances = <<>> THEN 1
           ELSE utterances[Len(utterances)].upto + 1,
           Len(heard))

\* C21: the fragments got are grouped into utterances closed by the idle
\* timeout or by "END"; the utterances are consecutive non-empty runs of the
\* fragments in arrival order (every fragment in exactly one utterance), each
\* the run joined by single spaces; each utterance is responded to exactly
\* once, in order; and while the responder accumulates, its buffer is the
\* join of the fragments got since the last utterance.
C21_Utterances ==
    /\ \A k \in 1..Len(utterances) :
          /\ utterances[k].upto > (IF k = 1 THEN 0 ELSE utterances[k - 1].upto)
          /\ utterances[k].text = Join(UtteranceFragments(k))
    /\ inputs = [k \in 1..Len(utterances) |-> utterances[k].text]
    /\ IF llm_pc = "accum"
       THEN Accumulating # <<>> /\ llm_buffer = Join(Accumulating)
       ELSE Accumulating = <<>>

\* C21 witness: "a" and "b" were got, then the channel stayed idle: one
\* utterance "a b", being responded to
C21_Witness ==
    /\ heard = << <<"a">>, <<"b">> >>
    /\ utterances = << [text |-> <<"a", " ", "b">>, upto |-> 2,
                         final |-> FALSE] >>
    /\ inputs = << <<"a", " ", "b">> >>
    /\ llm_pc = "gen"

\* C22: when a stage's loop has failed no sibling is left hanging: here,
\* once the recognizer's sender has returned on a failed send, the audio
\* producer is never suspended in a put on the full channel that only the
\* sender consumed.
C22_NoSiblingHangs ==
    ~(sender_pc = "done" /\ producer_pc = "run" /\ ~CanPut(audio_queue))

\* the microphone task is suspended: at its yield, with the consumer in
\* await audio_queue.put, or in asyncio.sleep
MicSuspended == mic_pc \in {"yielded", "sleep"}

\* C23: no lock is held across a suspension point: while the microphone
\* task is suspended it does not hold the capture buffer lock (and while the
\* player task is outside _add_audio_chunk and flush_and_stop it does not
\* hold the playback buffer lock).
C23_NoLockAcrossSuspension ==
    /\ MicSuspended => capture_lock # "task"
    /\ push_pc = "idle" => buffer_lock # "task"

\* the playback buffer state that buffer_lock protects
Guarded ==
    <<audio_buffer, total_samples_buffered, started_playback, underrun_count>>

\* C24: every mutation of audio_buffer, total_samples_buffered,
\* started_playback and underrun_count by push, pop or flush is made by the
\* holder of buffer_lock; the task holds the lock exactly while it is inside
\* the with block of a push or a flush and the callback thread exactly while
\* it is inside its own, so the two are never inside at the same time and
\* no step of one falls between two steps of a push, pop or flush of the
\* other.
C24_MutationsUnderLock ==
    [][ /\ (push_pc \in InWith) <=> (buffer_lock = "task")
        /\ (pop_pc = "locked") <=> (buffer_lock = "callback")
        /\ (push_pc' \in InWith) <=> (buffer_lock' = "task")
        /\ (pop_pc' = "locked") <=> (buffer_lock' = "callback")
        /\ Guarded' # Guarded =>
              \/ buffer_lock = "task" /\ push_pc \in InWith
                    /\ push_pc' # push_pc /\ pop_pc' = pop_pc
              \/ buffer_lock = "callback" /\ pop_pc = "locked"
                    /\ pop_pc' = "idle" /\ push_pc' = push_pc
      ]_vars

\* C24 witness: playback has started, the task is in the middle of a push
\* (the frame appended, the total not yet updated) and holds the lock, the
\* callback thread is outside
C24_Witness ==
    /\ is_playing
    /\ started_playback
    /\ push_pc = "total"
    /\ buffer_lock = "task"
    /\ pop_pc = "idle"
    /\ total_samples_buffered # SumLen(audio_buffer)

\* C25: the acknowledgement flags are reset at the start of each interrupt
\* cycle: when a call of trigger_interrupt made in RESPONDING has raised the
\* interrupt and reached its wait, no flag is set, so an acknowledgement
\* delivered before the cycle does not count for it.
C25_ResetAtCycleStart ==
    [][ \A c \in Callers :
          (state = RESPONDING /\ ApiTriggerInterrupt(c)) =>
              \A x \in Components : ~cleanup_events'[x]
      ]_vars

\* C26: a barge-in is triggered only by finalized speech: the receipt of a
\* non-final (interim) transcript while the state is RESPONDING changes
\* neither the state nor the session id.
C26_InterimNoBargeIn ==
    [][ (state = RESPONDING /\ AsrReceive("interim")) =>
            UNCHANGED <<state, current_session_id>>
      ]_vars

\* C27: a finalized transcript received while RESPONDING is handled in this
\* order: trigger_interrupt starts (INTERRUPTING, session id + 1) and the
\* receiver waits in it; while it waits the state stays INTERRUPTING and the
\* receiver forwards nothing; the wait ends with the state LISTENING and the
\* session id kept; the receiver then sets PROCESSING, still without
\* forwarding; and only then is the text put on the text channel.
C27_BargeInBeforeForward ==
    [][ /\ (state = RESPONDING /\ AsrReceive("final")) =>
              /\ state' = INTERRUPTING
              /\ current_session_id' = current_session_id + 1
              /\ recv_pc' = "waiting"
              /\ text_queue' = text_queue
        /\ recv_pc = "waiting" =>
              /\ state = INTERRUPTING
              /\ Len(text_queue') <= Len(text_queue)
              /\ current_session_id' = current_session_id
              /\ recv_pc' \in {"waiting", "returned"}
              /\ recv_pc' = "returned" => state' = LISTENING
        /\ (recv_pc = "returned" /\ cur_result = "final") =>
              /\ state = LISTENING
              /\ state' = PROCESSING
              /\ current_session_id' = current_session_id
              /\ recv_pc' = "yield"
              /\ text_queue' = text_queue
        /\ Len(text_queue') > Len(text_queue) =>
              /\ recv_pc = "yield" /\ recv_pc' = "recv"
              /\ text_queue' = Append(text_queue, Item(<<"t">>, asr_sid))
              /\ asr_sid = current_session_id
      ]_vars

\* C27 witness: of two results the first, final, led to a response and the
\* second, final and received while RESPONDING, went through the barge-in:
\* its text, stamped with the new session id, has been forwarded
C27_Witness ==
    /\ results_left = MaxResults - 2
    /\ current_session_id = 1
    /\ recv_pc = "recv"
    /\ cur_result = "final"
    /\ text_queue = << Item(<<"t">>, 1) >>

\* the last utterance was closed by "END" got in Step 2
ClosedByEnd ==
    utterances # <<>> /\ utterances[Len(utterances)].final

\* C28: when "END" arrives while the responder accumulates an utterance, the
\* responder responds to the utterance and generate_stream then terminates.
C28_EndWhileAccumulating ==
    ClosedByEnd ~> (llm_pc = "done")

\* C29: without flush, the real samples written by all the pops so far
\* followed by the samples still buffered are the samples pushed, in push
\* order: none is lost, duplicated or reordered, whether a head frame is
\* consumed whole or split.
C29_SamplesConserved ==
    popped \o Flat(audio_buffer) = pushed

\* C29 witness: frames <<1, 2>> and <<3, 4>> were pushed and a pop of three
\* samples took the first whole and a prefix of the second, whose remainder
\* is the new head
C29_Witness ==
    /\ pushed = <<1, 2, 3, 4>>
    /\ popped = <<1, 2, 3>>
    /\ outdata = <<1, 2, 3>>
    /\ audio_buffer = << <<4>> >>

\* C30 as stated, for the synthesizer: when the synthesis of a unit has
\* failed, no audio has been emitted for that unit.
C30_NoAudioOnFailure ==
    tts_pc = "failed" => tts_left = MaxStream

\* C30 (amended): when the response generation fails, the responder's next
\* output is the apology chunk and the responder is then back at Step 1,
\* ready for the next utterance; when the synthesis of a unit fails, the
\* synthesizer emits no more audio for that unit (what was streamed before
\* the failure stays emitted), drops the unit and goes on with its next get
\* (or ends, if the unit was the remainder synthesised at "END"). A failure
\* never ends a stage loop otherwise.
C30_FailureRecovered ==
    [][ /\ (llm_pc = "gen" /\ llm_pc' # "gen") =>
              llm_pc' \in {"first", "apology"}
        /\ llm_pc = "apology" =>
              \/ /\ llm_pc' = "apology"
                 /\ Len(response_queue') <= Len(response_queue)
              \/ /\ llm_pc' = "first"
                 /\ response_queue' =
                       Append(response_queue,
                              Item(error_response \o <<" ">>,
                                   current_session_id))
        /\ (tts_pc = "synth" /\ tts_pc' = "failed") =>
              UNCHANGED <<tts_left, tts_chunk_queue, buffer>>
        /\ tts_pc = "failed" =>
              /\ tts_chunk_queue' = tts_chunk_queue
              /\ \/ tts_pc' = "failed" /\ tts_left' = tts_left
                 \/ /\ tts_pc' = (IF tts_final THEN "done" ELSE "get")
                    /\ buffer' = <<>>
                    /\ tts_left' = 0
      ]_vars

\* C30 witness: the response to the first utterance failed, the apology was
\* put and the responder has taken the first fragment of the next utterance;
\* the synthesizer streamed the audio of the apology and then failed
C30_Witness ==
    /\ llm_pc = "accum"
    /\ Len(heard) = 2
    /\ Len(inputs) = 1
    /\ tts_pc = "failed"
    /\ tts_left = 0
    /\ buffer = error_response

\* C31: an item that is neither payload nor "END" is dropped by the stage
\* that gets it: the responder, the synthesizer and the sink are, after the
\* get, where they were before it, with the text or audio they had
\* accumulated, ready for the next item
C31_MalformedDropped ==
    [][ /\ ( /\ text_queue # <<>>
             /\ Head(text_queue).text = NonText
             /\ text_queue' = Tail(text_queue) )
           => (llm_pc' = llm_pc /\ llm_buffer' = llm_buffer)
        /\ ( /\ response_queue # <<>>
             /\ Head(response_queue).text = NonText
             /\ response_queue' = Tail(response_queue) )
           => (tts_pc' = tts_pc /\ buffer' = buffer)
        /\ ( /\ tts_chunk_queue # <<>>
             /\ Head(tts_chunk_queue).text = NonAudio
             /\ tts_chunk_queue' = Tail(tts_chunk_queue) )
           => (player_pc' = player_pc /\ audio_buffer' = audio_buffer)
      ]_vars

\* C32: no payload is taken for the terminal marker: while only payload is
\* put on the channels, a transcript or response text "END" among it, the
\* loops of the responder and of the synthesizer do not end
C32_PayloadNotTerminal ==
    llm_pc # "done" /\ tts_pc # "done"

\* C33: in every state another task can observe, interrupt_event is set
\* exactly when the state is INTERRUPTING, and the step that sets the event
\* (or enters INTERRUPTING) is the step that increments the session id: the
\* event is never seen with the session id of before the barge-in
C33_SignalIffInterrupting ==
    [][ /\ interrupt_event' <=> (state' = INTERRUPTING)
        /\ (~interrupt_event /\ interrupt_event')
              => current_session_id' = current_session_id + 1
        /\ (state # INTERRUPTING /\ state' = INTERRUPTING)
              => current_session_id' = current_session_id + 1
      ]_vars

\* the receiver is suspended in the await of trigger_interrupt: the event is
\* set and the session id is ahead of the one the receiver captured last
C33_Witness ==
    /\ recv_pc = "waiting"
    /\ interrupt_event
    /\ state = INTERRUPTING
    /\ current_session_id > asr_sid

\* C34: once the receiver has seen the end of the recognition session and
\* closed the socket, transcribe_stream finishes: the await of sender_task
\* returns
C34_FinishesAfterDone ==
    (recv_pc = "closed") ~> (asr_pc = "done")

\* C35: once the play loop has been cancelled, play_audio stops the output
\* stream and returns, whatever the buffer holds at that time
C35_ReturnsAfterCancel ==
    (player_pc = "drain") ~> (player_pc = "done" /\ ~is_playing)

\* C36: while play_audio is in its loop the output stream is running again
\* whenever the buffer holds frames: frames pushed after a flush are served
C36_ServedAfterFlush ==
    (player_pc = "loop" /\ audio_buffer # <<>>) ~> is_playing

\* the chunks yielded are the first of the chunks captured, in their order
YieldedInOrder ==
    /\ Len(yielded) <= Len(captured)
    /\ yielded = SubSeq(captured, 1, Len(yielded))

Alternating(roles) ==
    \A i \in 1..Len(roles) :
        roles[i] = IF i % 2 = 1 THEN "user" ELSE "assistant"

\* C38: the list sent to the model holds at most 20 messages, starts with a
\* user message and strictly alternates user and assistant messages
C38_WholeTurns ==
    /\ Len(messages) <= history_limit
    /\ Alternating(messages)

====
